---------------------------- MODULE Spec2Model ----------------------------
(***************************************************************************)
(* Model of birt-convert: header normalisation, duration-column detection, *)
(* the decimal-hours to hh:mm codec and the column converter               *)
(* (lib/csvParser.ts, lib/xlsxParser.ts, components/ColumnSelector.vue).   *)
(*                                                                         *)
(* Strings are sequences of one-character strings, so that concatenation,  *)
(* trimming, padding, substring search and parsing are computed and not     *)
(* assumed.  A number is a whole count of ticks, one tick being 1/Den of   *)
(* an hour; the arithmetic is exact (IEEE rounding error of the browser's  *)
(* doubles is outside the model).                                          *)
(***************************************************************************)
EXTENDS Integers, Sequences, FiniteSets, TLC

VARIABLES
    phase,                \* position of the pipeline run that is modelled
    fileKind,             \* "csv" | "xlsx": which ingestor handles the file
    metaFields,           \* csv: results.meta.fields
    rawData,              \* csv: results.data (row objects); xlsx: sheet_to_json grid
    merges,               \* xlsx: worksheet['!merges'], records [sr, sc, er, ec], 0-based
    parseError,           \* "none", or the kind of error the ingestor threw
    headers,              \* ParsedCSV.headers: the Schema
    data,                 \* ParsedCSV.data: sequence of rows (functions key -> cell)
    suggestedColumns,     \* ParsedCSV.suggestedColumns
    selectedColumns,      \* ColumnSelector: selectedColumns[fileName]
    keepOriginalColumns,  \* ColumnSelector: keepOriginalColumns
    convertedData,        \* convertCSVColumns(...).data
    newHeaders,           \* convertCSVColumns(...).newHeaders
    outputFields,         \* allHeaders of convertToCSV / convertToXLSX
    decimal,              \* argument of decimalToTime, in ticks
    clock,                \* result of decimalToTime
    headerRow,            \* xlsx: result of detectHeaderRow (-1 before the call)
    fileName,             \* a file name given to the dispatch and to the output naming
    convertedFileName,    \* handleConvert: convertedFileName
    currentStep,          \* UploadForm: currentStep
    files,                \* FileUpload: files (the list shown), by file name
    uploadedFiles,        \* UploadForm: uploadedFiles, by file name
    parsePromises,        \* handleAnalyze: parsePromises of the analysis under way
    parsedFiles,          \* UploadForm: parsedFiles
    isProcessing,         \* UploadForm: isProcessing
    errorMessage,         \* UploadForm: errorMessage
    conversionProgress,   \* UploadForm: conversionProgress
    convertArgs,          \* handleConvert: its arguments (selectedColumns, keepOriginal)
    convertPc,            \* handleConvert: the await it is suspended at
    convertIndex,         \* handleConvert: position of the for-of loop in parsedFiles
    zip,                  \* handleConvert: entries of the JSZip object
    downloads             \* downloadBlob: the archives handed to the browser

vars == <<phase, fileKind, metaFields, rawData, merges, parseError, headers, data,
          suggestedColumns, selectedColumns, keepOriginalColumns, convertedData,
          newHeaders, outputFields, decimal, clock, headerRow, fileName,
          convertedFileName, currentStep, files, uploadedFiles,
          parsePromises, parsedFiles, isProcessing, errorMessage, conversionProgress,
          convertArgs, convertPc, convertIndex, zip, downloads>>

ingestVars == <<fileKind, metaFields, rawData, merges, parseError>>
tableVars == <<headers, data, suggestedColumns>>
selectionVars == <<selectedColumns, keepOriginalColumns>>
convertVars == <<convertedData, newHeaders, outputFields>>
timeVars == <<decimal, clock>>
nameVars == <<fileName, convertedFileName>>
wizardVars == <<currentStep, files, uploadedFiles, parsePromises, parsedFiles,
                isProcessing, errorMessage, conversionProgress, convertArgs,
                convertPc, convertIndex, zip, downloads>>
\* the variables of the upload wizard, the file-name functions and the header-row
\* discovery: no run of the table pipeline touches them
otherVars == <<headerRow, nameVars, wizardVars>>

-----------------------------------------------------------------------------
(* Bounds of the model *)

\* ticks per minute; a number n stands for n / Den hours
SubMinute == 4
\* whole hours 0..MaxHours are enumerated (plus the LargeHours samples)
MaxHours == 3

Den == 60 * SubMinute

\* further hour counts: the documented example 7.5, and counts that need two,
\* three and four digits
LargeHours == {7, 8, 10, 99, 100, 1000}

-----------------------------------------------------------------------------
(* Cell values: JavaScript null, undefined, string and number *)

Null == [t |-> "null", s |-> <<>>, n |-> 0]
Undefined == [t |-> "undefined", s |-> <<>>, n |-> 0]
Str(s) == [t |-> "string", s |-> s, n |-> 0]
Num(n) == [t |-> "number", s |-> <<>>, n |-> n]

\* the type test widened to strings (mutant)
IsNumberOrString(v) == v.t \in {"number", "string"}

\* typeof val === 'number'
IsNumber(v) == v.t = "number"
\* val != null  (loose inequality: false for null and for undefined)
NotNullish(v) == v.t \notin {"null", "undefined"}

\* row[key] on a plain object: undefined when the key is absent
Get(row, key) == IF key \in DOMAIN row THEN row[key] ELSE Undefined

\* { ...row, [key]: value }
Put(row, key, value) == [k \in (DOMAIN row) \cup {key} |-> IF k = key THEN value ELSE row[k]]

-----------------------------------------------------------------------------
(* String primitives *)

DigitChars == <<"0", "1", "2", "3", "4", "5", "6", "7", "8", "9">>

\* Number.prototype.toString for a non-negative integer
RECURSIVE NatToString(_)
NatToString(n) ==
    IF n < 10 THEN <<DigitChars[n + 1]>>
    ELSE NatToString(n \div 10) \o <<DigitChars[(n % 10) + 1]>>

\* String.prototype.padStart(targetLength, padChar)
RECURSIVE padStart(_, _, _)
padStart(s, targetLength, padChar) ==
    IF Len(s) >= targetLength THEN s
    ELSE padStart(<<padChar>> \o s, targetLength, padChar)

\* Math.round(num / den) for num >= 0, den > 0: floor(x + 0.5)
MathRound(num, den) == (2 * num + den) \div (2 * den)

Abs(x) == IF x < 0 THEN 0 - x ELSE x

-----------------------------------------------------------------------------
(* TimeCodec: decimalToTime *)

\* decimalToTime with the sign dropped (mutant)
decimalToTimeNoSign(d) ==
    LET absDecimal == Abs(d)
        hours == absDecimal \div Den
        minutes == MathRound((absDecimal - hours * Den) * 60, Den)
    IN  padStart(NatToString(hours), 2, "0") \o <<":">> \o padStart(NatToString(minutes), 2, "0")

\* decimalToTime with Math.floor in place of Math.round for the minutes (mutant)
decimalToTimeFloorMinutes(d) ==
    LET absDecimal == Abs(d)
        hours == absDecimal \div Den
        minutes == ((absDecimal - hours * Den) * 60) \div Den
        sign == IF d < 0 THEN <<"-">> ELSE <<>>
    IN  sign \o padStart(NatToString(hours), 2, "0") \o <<":">>
             \o padStart(NatToString(minutes), 2, "0")

decimalToTime(d) ==
    LET isNegative == d < 0
        absDecimal == Abs(d)
        hours == absDecimal \div Den
        minutes == MathRound((absDecimal - hours * Den) * 60, Den)
        sign == IF isNegative THEN <<"-">> ELSE <<>>
    IN  sign \o padStart(NatToString(hours), 2, "0") \o <<":">>
             \o padStart(NatToString(minutes), 2, "0")

-----------------------------------------------------------------------------
(* More string primitives *)

\* String.prototype.includes
Includes(s, sub) ==
    \E i \in 0 .. (Len(s) - Len(sub)) : SubSeq(s, i + 1, i + Len(sub)) = sub

UpperChars == <<"A", "B", "C", "D", "E", "F", "G", "H", "I", "J", "K", "L", "M",
                "N", "O", "P", "Q", "R", "S", "T", "U", "V", "W", "X", "Y", "Z">>
LowerChars == <<"a", "b", "c", "d", "e", "f", "g", "h", "i", "j", "k", "l", "m",
                "n", "o", "p", "q", "r", "s", "t", "u", "v", "w", "x", "y", "z">>

LowerChar(c) ==
    IF \E k \in 1 .. 26 : UpperChars[k] = c
    THEN LowerChars[CHOOSE k \in 1 .. 26 : UpperChars[k] = c]
    ELSE c

\* String.prototype.toLowerCase
toLowerCase(s) == [i \in 1 .. Len(s) |-> LowerChar(s[i])]

IsSpace(c) == c = " "

\* String.prototype.trim
RECURSIVE trimStart(_)
trimStart(s) == IF Len(s) > 0 /\ IsSpace(s[1]) THEN trimStart(Tail(s)) ELSE s
RECURSIVE trimEnd(_)
trimEnd(s) ==
    IF Len(s) > 0 /\ IsSpace(s[Len(s)]) THEN trimEnd(SubSeq(s, 1, Len(s) - 1)) ELSE s
trim(s) == trimEnd(trimStart(s))

\* String(cell) for a string or a whole number of hours (a header cell holding a
\* fractional number is outside the sampled inputs)
JsString(v) ==
    IF v.t = "string" THEN v.s
    ELSE IF v.n < 0 THEN <<"-">> \o NatToString((0 - v.n) \div Den)
    ELSE NatToString(v.n \div Den)

Range(s) == { s[i] : i \in 1 .. Len(s) }

IsDigits(s) == \A i \in 1 .. Len(s) : \E k \in 1 .. 10 : DigitChars[k] = s[i]

DigitValue(c) == (CHOOSE k \in 1 .. 10 : DigitChars[k] = c) - 1

RECURSIVE StringToNat(_)
StringToNat(s) ==
    IF s = <<>> THEN 0
    ELSE 10 * StringToNat(SubSeq(s, 1, Len(s) - 1)) + DigitValue(s[Len(s)])

-----------------------------------------------------------------------------
(* HeaderNormalizer: ensureUniqueHeaders *)

\* `${header} (${count})`
Numbered(header, count) == header \o <<" ", "(">> \o NatToString(count) \o <<")">>

\* the for-of loop: i is the position reached, headerCounts the Map, uniqueHeaders the output
RECURSIVE UniqueHeadersLoop(_, _, _, _)
UniqueHeadersLoop(hs, i, headerCounts, uniqueHeaders) ==
    IF i > Len(hs) THEN uniqueHeaders
    ELSE LET header == hs[i]
         IN  IF header \in DOMAIN headerCounts
             THEN LET count == headerCounts[header] + 1
                  IN  UniqueHeadersLoop(hs, i + 1, Put(headerCounts, header, count),
                                        Append(uniqueHeaders, Numbered(header, count)))
             ELSE UniqueHeadersLoop(hs, i + 1, Put(headerCounts, header, 1),
                                    Append(uniqueHeaders, header))

\* the loop with headerCounts.set(header, count) left out of the duplicate branch (mutant)
RECURSIVE UniqueHeadersLoopStaleCount(_, _, _, _)
UniqueHeadersLoopStaleCount(hs, i, headerCounts, uniqueHeaders) ==
    IF i > Len(hs) THEN uniqueHeaders
    ELSE LET header == hs[i]
         IN  IF header \in DOMAIN headerCounts
             THEN LET count == headerCounts[header] + 1
                  IN  UniqueHeadersLoopStaleCount(hs, i + 1, headerCounts,
                                        Append(uniqueHeaders, Numbered(header, count)))
             ELSE UniqueHeadersLoopStaleCount(hs, i + 1, Put(headerCounts, header, 1),
                                    Append(uniqueHeaders, header))

ensureUniqueHeadersStaleCount(hs) == UniqueHeadersLoopStaleCount(hs, 1, <<>>, <<>>)

ensureUniqueHeaders(hs) == UniqueHeadersLoop(hs, 1, <<>>, <<>>)

-----------------------------------------------------------------------------
(* DurationDetector: detectDecimalHourColumns *)

timeKeywords == <<
    <<"h", "o", "u", "r">>,
    <<"h", "r", "s">>,
    <<"t", "i", "m", "e">>,
    <<"d", "u", "r", "a", "t", "i", "o", "n">>,
    <<"w", "o", "r", "k", "e", "d">>,
    <<"l", "o", "g", "g", "e", "d">>,
    <<"a", "c", "t", "u", "a", "l">>,
    <<"p", "l", "a", "n", "n", "e", "d">>,
    <<"s", "c", "h", "e", "d", "u", "l", "e", "d">>,
    <<"b", "i", "l", "l", "a", "b", "l", "e">>,
    <<"n", "o", "n", "-", "b", "i", "l", "l", "a", "b", "l", "e">>,
    <<"p", "r", "o", "d", "u", "c", "t", "i", "v", "e">>,
    <<"n", "o", "n", "-", "p", "r", "o", "d", "u", "c", "t", "i", "v", "e">>,
    <<"h", "o", "u", "r", "s">> >>

\* the bounds of isReasonableRange, in hours
MinReasonableHours == -1000
MaxReasonableHours == 1000

\* extended numbers for the seeds of the two reduce calls
NegInfinity == [k |-> -1, n |-> 0]
PosInfinity == [k |-> 1, n |-> 0]
Finite(n) == [k |-> 0, n |-> n]
\* a <= b on extended numbers
ExtLeq(a, b) == a.k < b.k \/ (a.k = b.k /\ (a.k # 0 \/ a.n <= b.n))
MathMax(a, b) == IF ExtLeq(a, b) THEN b ELSE a
MathMin(a, b) == IF ExtLeq(a, b) THEN a ELSE b

\* values.reduce((a, b) => Math.max(a, b), -Infinity), from position i with accumulator a
RECURSIVE ReduceMax(_, _, _)
ReduceMax(values, i, a) ==
    IF i > Len(values) THEN a ELSE ReduceMax(values, i + 1, MathMax(a, Finite(values[i].n)))
RECURSIVE ReduceMin(_, _, _)
ReduceMin(values, i, a) ==
    IF i > Len(values) THEN a ELSE ReduceMin(values, i + 1, MathMin(a, Finite(values[i].n)))

\* timeKeywords.some((keyword) => headerLower.includes(keyword))
HasTimeKeyword(header) ==
    LET headerLower == toLowerCase(header)
    IN  \E k \in 1 .. Len(timeKeywords) : Includes(headerLower, timeKeywords[k])

\* data.map((row) => row[header]).filter((val) => val != null)
ColumnValues(tbl, header) ==
    SelectSeq([r \in 1 .. Len(tbl) |-> Get(tbl[r], header)], NotNullish)

\* the loop body with the range test applied to the maximum only (mutant)
IsSuggestedMaxOnly(header, tbl) ==
    LET hasTimeKeyword == HasTimeKeyword(header)
        columnValues == ColumnValues(tbl, header)
        numericValues == SelectSeq(columnValues, IsNumber)
        max == ReduceMax(numericValues, 1, NegInfinity)
        isReasonableRange == ExtLeq(max, Finite(MaxReasonableHours * Den))
    IN  IF Len(columnValues) = 0 THEN FALSE
        ELSE IF 5 * Len(numericValues) < 4 * Len(columnValues) THEN FALSE
        ELSE IF hasTimeKeyword /\ isReasonableRange THEN TRUE
        ELSE IF ~hasTimeKeyword /\ isReasonableRange
                /\ Len(numericValues) = Len(columnValues) THEN TRUE
        ELSE FALSE

\* one pass of the loop body: TRUE when the header is pushed onto suggestions
\* (numericRatio < 0.8 is 5 * numeric < 4 * nonNull; numericRatio === 1 is equality)
IsSuggested(header, tbl) ==
    LET hasTimeKeyword == HasTimeKeyword(header)
        columnValues == ColumnValues(tbl, header)
        numericValues == SelectSeq(columnValues, IsNumber)
        max == ReduceMax(numericValues, 1, NegInfinity)
        min == ReduceMin(numericValues, 1, PosInfinity)
        isReasonableRange ==
            /\ ExtLeq(Finite(MinReasonableHours * Den), min)
            /\ ExtLeq(max, Finite(MaxReasonableHours * Den))
    IN  IF Len(columnValues) = 0 THEN FALSE
        ELSE IF 5 * Len(numericValues) < 4 * Len(columnValues) THEN FALSE
        ELSE IF hasTimeKeyword /\ isReasonableRange THEN TRUE
        ELSE IF ~hasTimeKeyword /\ isReasonableRange
                /\ Len(numericValues) = Len(columnValues) THEN TRUE
        ELSE FALSE

RECURSIVE DetectLoop(_, _, _, _)
DetectLoop(hs, tbl, i, suggestions) ==
    IF i > Len(hs) THEN suggestions
    ELSE DetectLoop(hs, tbl, i + 1,
                    IF IsSuggested(hs[i], tbl) THEN Append(suggestions, hs[i])
                    ELSE suggestions)

detectDecimalHourColumns(hs, tbl) == DetectLoop(hs, tbl, 1, <<>>)

-----------------------------------------------------------------------------
(* TableIngestor, delimited text: the complete callback of parseCSVFile *)

\* originalHeaders.forEach((originalHeader, index) => ...) on one row
RECURSIVE RemapRow(_, _, _, _, _)
RemapRow(row, originalHeaders, uniqueHeaders, i, newRow) ==
    IF i > Len(originalHeaders) THEN newRow
    ELSE RemapRow(row, originalHeaders, uniqueHeaders, i + 1,
                  IF uniqueHeaders[i] # <<>>
                  THEN Put(newRow, uniqueHeaders[i], Get(row, originalHeaders[i]))
                  ELSE newRow)

\* resolve({fileName, headers, data, suggestedColumns})
parseCSVFile(fields, rows) ==
    LET originalHeaders == fields
        uniqueHeaders == ensureUniqueHeaders(originalHeaders)
        remapped == [r \in 1 .. Len(rows) |->
                        RemapRow(rows[r], originalHeaders, uniqueHeaders, 1, <<>>)]
    IN  [error |-> "none", headers |-> uniqueHeaders, data |-> remapped,
         suggestedColumns |-> detectDecimalHourColumns(uniqueHeaders, remapped)]

-----------------------------------------------------------------------------
(* TableIngestor, spreadsheet: parseXLSXSheet and parseXLSXFile *)

\* cell != null && cell !== ''
NonEmptyCell(c) == NotNullish(c) /\ c # Str(<<>>)
IsString(c) == c.t = "string"

markers == <<
    <<"T", "i", "m", "e", " ", "P", "e", "r", "i", "o", "d">>,
    <<"E", "x", "e", "c", "u", "t", "e", "d", " ", "o", "n">>,
    <<"Q", "u", "e", "r", "y">> >>

\* rows 0..5 are searched for the markers
ReportHeaderRows == 6
\* the column-header search covers rows 3..14
HeaderSearchFrom == 3
HeaderSearchEnd == 15
MinHeaderCells == 5
DefaultHeaderRow == 6

hasReportHeader(rows) ==
    LET foundMarkers ==
            { m \in 1 .. Len(markers) :
                \E r \in 1 .. Len(rows) :
                    /\ r <= ReportHeaderRows
                    /\ \E c \in 1 .. Len(rows[r]) :
                           IsString(rows[r][c]) /\ Includes(rows[r][c].s, markers[m]) }
    IN  Cardinality(foundMarkers) >= 2

\* the search with the test of the cell count alone, the share of strings left out
\* (mutant)
RECURSIVE findColumnHeaderRowByCount(_, _)
findColumnHeaderRowByCount(rows, i) ==
    IF ~(i < Len(rows) /\ i < 15) THEN 6
    ELSE IF Cardinality({ c \in 1 .. Len(rows[i + 1]) : NonEmptyCell(rows[i + 1][c]) }) >= 5
         THEN i
         ELSE findColumnHeaderRowByCount(rows, i + 1)

\* i is the 0-based row index of the for loop (stringCells / nonEmptyCells >= 0.6)
RECURSIVE findColumnHeaderRowFrom(_, _)
findColumnHeaderRowFrom(rows, i) ==
    IF ~(i < Len(rows) /\ i < HeaderSearchEnd) THEN DefaultHeaderRow
    ELSE LET row == rows[i + 1]
             nonEmptyCells == Cardinality({ c \in 1 .. Len(row) : NonEmptyCell(row[c]) })
             stringCells == Cardinality({ c \in 1 .. Len(row) : IsString(row[c]) })
         IN  IF nonEmptyCells >= MinHeaderCells /\ 5 * stringCells >= 3 * nonEmptyCells
             THEN i
             ELSE findColumnHeaderRowFrom(rows, i + 1)

findColumnHeaderRow(rows) == findColumnHeaderRowFrom(rows, HeaderSearchFrom)

detectHeaderRow(rows) ==
    IF Len(rows) = 0 THEN 0
    ELSE IF hasReportHeader(rows) THEN findColumnHeaderRow(rows)
    ELSE 0

\* the merged columns taken from every merge, whatever rows it covers (mutant)
getMergedColumnsAnyRow(mergeSet, headerRowIndex) ==
    UNION { (merge.sc + 1) .. merge.ec : merge \in mergeSet }

\* 0-based column indices that lie in a merge covering the header row, its first column excepted
getMergedColumns(mergeSet, headerRowIndex) ==
    UNION { (merge.sc + 1) .. merge.ec :
            merge \in { m \in mergeSet : m.sr <= headerRowIndex /\ m.er >= headerRowIndex } }

\* headerRow.forEach: the 0-based indices of the columns that keep a header, left to right
RECURSIVE ValidColumnIndices(_, _, _, _)
ValidColumnIndices(headerCells, mergedCols, index, acc) ==
    IF index >= Len(headerCells) THEN acc
    ELSE ValidColumnIndices(headerCells, mergedCols, index + 1,
            IF index \in mergedCols THEN acc
            ELSE IF ~NonEmptyCell(headerCells[index + 1]) THEN acc
            ELSE Append(acc, index))

\* String(cell).trim() of each retained column
RawHeaders(headerCells, validColumnIndices) ==
    [h \in 1 .. Len(validColumnIndices) |-> trim(JsString(headerCells[validColumnIndices[h] + 1]))]

\* the worksheet holds a cell object exactly where the grid is not null
CellCount(grid, col) == Cardinality({ r \in 1 .. Len(grid) : col < Len(grid[r]) /\ grid[r][col + 1] # Null })
SheetColumns(grid) ==
    { col \in UNION { 0 .. (Len(grid[r]) - 1) : r \in 1 .. Len(grid) } : CellCount(grid, col) > 0 }

\* the 0-based columns findMissingDataColumns reports
findMissingDataColumns(grid, headerRowIndex) ==
    IF \E col \in SheetColumns(grid) : CellCount(grid, col) > 1
    THEN { col \in SheetColumns(grid) : CellCount(grid, col) = 1 }
    ELSE {}

\* Number(cell) is a number (not NaN) and cell.trim() !== '': decimal digits with an
\* optional minus sign (the other numeric spellings of JavaScript are not sampled)
IsNumericString(str) ==
    LET t == trim(str)
        body == IF Len(t) > 0 /\ t[1] = "-" THEN Tail(t) ELSE t
    IN  Len(body) > 0 /\ IsDigits(body)

JsNumber(str) ==
    LET t == trim(str)
    IN  IF t[1] = "-" THEN Num(0 - StringToNat(Tail(t)) * Den) ELSE Num(StringToNat(t) * Den)

\* row.forEach((cell, index) => ...) with headerMap as a function index -> name
RECURSIVE ExtractRow(_, _, _, _)
ExtractRow(row, headerMap, index, rowData) ==
    IF index >= Len(row) THEN rowData
    ELSE LET cell == row[index + 1]
         IN  ExtractRow(row, headerMap, index + 1,
                IF index \in DOMAIN headerMap
                THEN IF IsString(cell) /\ IsNumericString(cell.s)
                     THEN Put(rowData, headerMap[index], JsNumber(cell.s))
                     ELSE Put(rowData, headerMap[index], cell)
                ELSE rowData)

parseXLSXSheet(grid, mergeSet) ==
    LET headerRowIndex == detectHeaderRow(grid)
        hasHeaderRow == headerRowIndex < Len(grid)
        headerCells == IF hasHeaderRow THEN grid[headerRowIndex + 1] ELSE <<>>
        mergedCols == getMergedColumns(mergeSet, headerRowIndex)
        validColumnIndices == ValidColumnIndices(headerCells, mergedCols, 0, <<>>)
        uniqueHeaders == ensureUniqueHeaders(RawHeaders(headerCells, validColumnIndices))
        missingColumns == findMissingDataColumns(grid, headerRowIndex)
        headerMap == [index \in { validColumnIndices[h] : h \in { k \in 1 .. Len(validColumnIndices) :
                                                                   uniqueHeaders[k] # <<>> } } |->
                        uniqueHeaders[CHOOSE h \in 1 .. Len(validColumnIndices) :
                                          validColumnIndices[h] = index]]
        dataRows == SubSeq(grid, headerRowIndex + 2, Len(grid))
        kept == SelectSeq(dataRows, LAMBDA row : \E c \in 1 .. Len(row) : NonEmptyCell(row[c]))
        rows == [r \in 1 .. Len(kept) |-> ExtractRow(kept[r], headerMap, 0, <<>>)]
    IN  IF missingColumns # {}
        THEN [error |-> "missing-data", headers |-> <<>>, data |-> <<>>]
        ELSE [error |-> "none", headers |-> uniqueHeaders, data |-> rows]

\* reader.onload: resolve with the sheet and its suggestions, or reject
parseXLSXFile(grid, mergeSet) ==
    LET sheet == parseXLSXSheet(grid, mergeSet)
    IN  IF sheet.error # "none"
        THEN [error |-> sheet.error, headers |-> <<>>, data |-> <<>>, suggestedColumns |-> <<>>]
        ELSE [error |-> "none", headers |-> sheet.headers, data |-> sheet.data,
              suggestedColumns |-> detectDecimalHourColumns(sheet.headers, sheet.data)]

-----------------------------------------------------------------------------
(* The simple spreadsheet ingestor (lib/xlsxParser.ts): structural header search, *)
(* placeholder names for blank header cells                                        *)

NonEmptyCount(row) == Cardinality({ c \in 1 .. Len(row) : NonEmptyCell(row[c]) })
StringCount(row) == Cardinality({ c \in 1 .. Len(row) : IsString(row[c]) })

\* the fallback loop: the first row with the most non-empty cells among rows 0..9
RECURSIVE MostPopulatedRow(_, _, _, _)
MostPopulatedRow(rows, i, maxNonEmpty, maxIndex) ==
    IF ~(i < Len(rows) /\ i < 10) THEN maxIndex
    ELSE IF NonEmptyCount(rows[i + 1]) > maxNonEmpty
         THEN MostPopulatedRow(rows, i + 1, NonEmptyCount(rows[i + 1]), i)
         ELSE MostPopulatedRow(rows, i + 1, maxNonEmpty, maxIndex)

\* the first loop: at least 3 non-empty cells, at least 60% strings, and the two rows
\* below of a similar width (|avgNextCount - nonEmptyCells| <= 2)
RECURSIVE detectHeaderRowSimpleFrom(_, _)
detectHeaderRowSimpleFrom(rows, i) ==
    IF ~(i < Len(rows) - 2 /\ i < 20) THEN MostPopulatedRow(rows, 0, 0, 0)
    ELSE LET nonEmptyCells == NonEmptyCount(rows[i + 1])
             twiceAvgNextCount == NonEmptyCount(rows[i + 2]) + NonEmptyCount(rows[i + 3])
         IN  IF /\ nonEmptyCells >= 3
                /\ 5 * StringCount(rows[i + 1]) >= 3 * nonEmptyCells
                /\ Abs(twiceAvgNextCount - 2 * nonEmptyCells) <= 4
             THEN i
             ELSE detectHeaderRowSimpleFrom(rows, i + 1)

detectHeaderRowSimple(rows) ==
    IF Len(rows) = 0 THEN 0 ELSE detectHeaderRowSimpleFrom(rows, 0)

\* `Column${index + 1}`
ColumnPlaceholder(index) == <<"C", "o", "l", "u", "m", "n">> \o NatToString(index + 1)

\* headerRow.forEach: the trimmed text of the cell, or the placeholder of its column
simpleRawHeaders(headerCells) ==
    [h \in 1 .. Len(headerCells) |->
        IF NonEmptyCell(headerCells[h]) THEN trim(JsString(headerCells[h]))
        ELSE ColumnPlaceholder(h - 1)]

parseXLSXSheetSimple(grid) ==
    LET headerRowIndex == detectHeaderRowSimple(grid)
        headerCells == IF headerRowIndex < Len(grid) THEN grid[headerRowIndex + 1] ELSE <<>>
        uniqueHeaders == ensureUniqueHeaders(simpleRawHeaders(headerCells))
        \* headerMap.get(index) is used only when it is a non-empty string
        headerMap == [index \in { h - 1 : h \in { k \in 1 .. Len(uniqueHeaders) :
                                                     uniqueHeaders[k] # <<>> } } |->
                        uniqueHeaders[index + 1]]
        dataRows == SubSeq(grid, headerRowIndex + 2, Len(grid))
        kept == SelectSeq(dataRows, LAMBDA row : \E c \in 1 .. Len(row) : NonEmptyCell(row[c]))
        rows == [r \in 1 .. Len(kept) |-> ExtractRow(kept[r], headerMap, 0, <<>>)]
    IN  [error |-> "none", headers |-> uniqueHeaders, data |-> rows]

parseXLSXFileSimple(grid) ==
    LET sheet == parseXLSXSheetSimple(grid)
    IN  [error |-> "none", headers |-> sheet.headers, data |-> sheet.data,
         suggestedColumns |-> detectDecimalHourColumns(sheet.headers, sheet.data)]

-----------------------------------------------------------------------------
(* ColumnConverter: convertCSVColumns; TableSerializer: the header list *)

\* `${column}_hhmm`
hhmmSuffix == <<"_", "h", "h", "m", "m">>

\* for (const column of columnsToConvert) on the copy newRow; nh is the shared newHeaders
RECURSIVE ConvertRow(_, _, _, _, _)
ConvertRow(columnsToConvert, keepOriginal, i, newRow, nh) ==
    IF i > Len(columnsToConvert) THEN [row |-> newRow, newHeaders |-> nh]
    ELSE LET column == columnsToConvert[i]
         IN  IF IsNumber(Get(newRow, column))
             THEN LET convertedValue == Str(decimalToTime(newRow[column].n))
                      newColumnName == column \o hhmmSuffix
                  IN  IF keepOriginal
                      THEN ConvertRow(columnsToConvert, keepOriginal, i + 1,
                                      Put(newRow, newColumnName, convertedValue),
                                      IF newColumnName \in Range(nh) THEN nh
                                      ELSE Append(nh, newColumnName))
                      ELSE ConvertRow(columnsToConvert, keepOriginal, i + 1,
                                      Put(newRow, column, convertedValue), nh)
             ELSE ConvertRow(columnsToConvert, keepOriginal, i + 1, newRow, nh)

\* data.map((row) => ...): r is the row reached, out the rows mapped so far
RECURSIVE ConvertRows(_, _, _, _, _, _)
ConvertRows(tbl, columnsToConvert, keepOriginal, r, out, nh) ==
    IF r > Len(tbl) THEN [data |-> out, newHeaders |-> nh]
    ELSE LET done == ConvertRow(columnsToConvert, keepOriginal, 1, tbl[r], nh)
         IN  ConvertRows(tbl, columnsToConvert, keepOriginal, r + 1,
                         Append(out, done.row), done.newHeaders)

Reverse(s) == [i \in 1 .. Len(s) |-> s[Len(s) + 1 - i]]

\* the column loop started at the second selected column (mutant)
convertCSVColumnsSkipFirst(tbl, columnsToConvert, keepOriginal) ==
    ConvertRows(tbl, SubSeq(columnsToConvert, 2, Len(columnsToConvert)), keepOriginal, 1, <<>>, <<>>)

\* the column loop run from the last selected column to the first (mutant)
convertCSVColumnsReversed(tbl, columnsToConvert, keepOriginal) ==
    ConvertRows(tbl, Reverse(columnsToConvert), keepOriginal, 1, <<>>, <<>>)

\* the converted rows returned without the names of the added columns (mutant)
convertCSVColumnsNoNewHeaders(tbl, columnsToConvert, keepOriginal) ==
    [data |-> ConvertRows(tbl, columnsToConvert, keepOriginal, 1, <<>>, <<>>).data,
     newHeaders |-> <<>>]

convertCSVColumns(tbl, columnsToConvert, keepOriginal) ==
    ConvertRows(tbl, columnsToConvert, keepOriginal, 1, <<>>, <<>>)

\* allHeaders of convertToCSV and of convertToXLSX
allHeaders(hs, additionalHeaders) ==
    IF Len(additionalHeaders) > 0 THEN hs \o additionalHeaders ELSE hs

-----------------------------------------------------------------------------
(* ColumnSelector: the selection of one file *)

setColumnChecked(fileColumns, columnName, checked) ==
    IF checked
    THEN IF columnName \in Range(fileColumns) THEN fileColumns
         ELSE Append(fileColumns, columnName)
    ELSE SelectSeq(fileColumns, LAMBDA col : col # columnName)

\* Object.values(selectedColumns.value).some((columns) => columns.length > 0)
hasAnySelection(fileColumns) == Len(fileColumns) > 0

-----------------------------------------------------------------------------
(* Idle values of the variables a run does not use *)

IdleIngest ==
    /\ fileKind = "none"
    /\ metaFields = <<>>
    /\ rawData = <<>>
    /\ merges = {}
    /\ parseError = "none"

IdleTable ==
    /\ headers = <<>>
    /\ data = <<>>
    /\ suggestedColumns = <<>>

IdleSelection ==
    /\ selectedColumns = <<>>
    /\ keepOriginalColumns = FALSE

IdleConvert ==
    /\ convertedData = <<>>
    /\ newHeaders = <<>>
    /\ outputFields = <<>>

IdleTime ==
    /\ decimal = 0
    /\ clock = <<>>

IdleHeaderRow == headerRow = -1

IdleNames ==
    /\ fileName = <<>>
    /\ convertedFileName = <<>>

IdleWizard ==
    /\ currentStep = "upload"
    /\ files = <<>>
    /\ uploadedFiles = <<>>
    /\ parsePromises = <<>>
    /\ parsedFiles = <<>>
    /\ isProcessing = FALSE
    /\ errorMessage = <<>>
    /\ conversionProgress = <<>>
    /\ convertArgs = <<>>
    /\ convertPc = "idle"
    /\ convertIndex = 0
    /\ zip = <<>>
    /\ downloads = <<>>

IdleOther == IdleHeaderRow /\ IdleNames /\ IdleWizard

-----------------------------------------------------------------------------
(* Sampled names and cells *)

\* at most this many cells in a header row
MaxHeaderCells == 3

nH == <<"H">>
nN == <<"N">>
nH2 == <<"H", " ", "(", "2", ")">>
nPaddedH == <<" ", "H">>
nBlank == <<" ">>
nNA == <<"N", "/", "A">>
nHours == <<"H", "o", "u", "r", "s">>
nID == <<"I", "D">>
nOVERTIME == <<"O", "V", "E", "R", "T", "I", "M", "E">>
nHours_hhmm == <<"H", "o", "u", "r", "s", "_", "h", "h", "m", "m">>

\* 7.5, 3.25 and -7.5 hours
SevenAndHalf == Num(450 * SubMinute)
ThreeAndQuarter == Num(195 * SubMinute)
MinusSevenAndHalf == Num(0 - 450 * SubMinute)

SeqsUpTo(S, n) == UNION { [1 .. k -> S] : k \in 0 .. n }

-----------------------------------------------------------------------------
(* Specification of ingestion: one uploaded file is parsed *)

\* results.meta.fields: any header strings, as the parser hands them over;
\* results.data: no row, or one row object keyed by the fields
CsvFieldSamples == {<<>>, nH, nN, nH2}
CsvCellSamples == {SevenAndHalf, Null}
CsvFiles ==
    UNION { { [fields |-> f, rows |-> rs] :
                rs \in {<<>>} \cup { <<row>> : row \in [Range(f) -> CsvCellSamples] } } :
            f \in SeqsUpTo(CsvFieldSamples, MaxHeaderCells) }

\* sheet_to_json(header: 1, defval: null): a header row alone or followed by one data
\* row, all rows of the sheet's width; no report preamble
HeaderCellSamples ==
    {Null, Str(<<>>), Str(nH), Str(nBlank), Str(nPaddedH), Str(nH2), Num(7 * Den)}
DataCellSamples == {Null, Str(<<"8">>)}
XlsxGrids ==
    {<<>>}
    \cup { <<hdr>> : hdr \in [1 .. MaxHeaderCells -> HeaderCellSamples] }
    \cup { <<hdr, row>> : hdr \in [1 .. MaxHeaderCells -> HeaderCellSamples],
                          row \in [1 .. MaxHeaderCells -> DataCellSamples] }
MergeSamples ==
    { {}, {[sr |-> 0, sc |-> 0, er |-> 0, ec |-> 1]}, {[sr |-> 1, sc |-> 1, er |-> 1, ec |-> 2]} }

\* sheet_to_json(header: 1, defval: null, raw: false): every cell is its formatted
\* text or null; a header row alone, or followed by one or two data rows
SimpleHeaderCellSamples == {Null, Str(<<>>), Str(nH), Str(nBlank)}
SimpleGrids ==
    {<<>>}
    \cup { <<hdr>> : hdr \in [1 .. MaxHeaderCells -> SimpleHeaderCellSamples] }
    \cup { <<hdr, row>> : hdr \in [1 .. MaxHeaderCells -> SimpleHeaderCellSamples],
                          row \in [1 .. MaxHeaderCells -> DataCellSamples] }
    \cup { <<hdr, row, last>> : hdr \in [1 .. MaxHeaderCells -> SimpleHeaderCellSamples],
                                row \in [1 .. MaxHeaderCells -> DataCellSamples],
                                last \in { [c \in 1 .. MaxHeaderCells |-> Null],
                                           [c \in 1 .. MaxHeaderCells |-> Str(<<"8">>)] } }

InitIngest ==
    /\ phase = "uploaded"
    /\ \/ /\ fileKind = "xlsx"
          /\ metaFields = <<>>
          /\ rawData \in XlsxGrids
          /\ merges \in MergeSamples
       \/ /\ fileKind = "csv"
          /\ \E f \in CsvFiles : metaFields = f.fields /\ rawData = f.rows
          /\ merges = {}
       \/ /\ fileKind = "xlsx-simple"
          /\ metaFields = <<>>
          /\ rawData \in SimpleGrids
          /\ merges = {}
    /\ parseError = "none"
    /\ IdleTable /\ IdleSelection /\ IdleConvert /\ IdleTime /\ IdleOther

\* handleAnalyze on a .csv file: Papa.parse completes
ParseCSVFile ==
    /\ phase = "uploaded" /\ fileKind = "csv"
    /\ LET parsed == parseCSVFile(metaFields, rawData)
       IN  /\ headers' = parsed.headers
           /\ data' = parsed.data
           /\ suggestedColumns' = parsed.suggestedColumns
           /\ parseError' = parsed.error
    /\ phase' = "parsed"
    /\ UNCHANGED <<fileKind, metaFields, rawData, merges, selectionVars, convertVars, timeVars, otherVars>>

\* handleAnalyze on a .xlsx file: reader.onload resolves or rejects
ParseXLSXFile ==
    /\ phase = "uploaded" /\ fileKind = "xlsx"
    /\ LET parsed == parseXLSXFile(rawData, merges)
       IN  /\ headers' = parsed.headers
           /\ data' = parsed.data
           /\ suggestedColumns' = parsed.suggestedColumns
           /\ parseError' = parsed.error
           /\ phase' = IF parsed.error = "none" THEN "parsed" ELSE "parse-failed"
    /\ UNCHANGED <<fileKind, metaFields, rawData, merges, selectionVars, convertVars, timeVars, otherVars>>

\* handleAnalyze on a .xlsx file, simple ingestor: reader.onload resolves
ParseXLSXFileSimple ==
    /\ phase = "uploaded" /\ fileKind = "xlsx-simple"
    /\ LET parsed == parseXLSXFileSimple(rawData)
       IN  /\ headers' = parsed.headers
           /\ data' = parsed.data
           /\ suggestedColumns' = parsed.suggestedColumns
           /\ parseError' = parsed.error
    /\ phase' = "parsed-simple"
    /\ UNCHANGED <<fileKind, metaFields, rawData, merges, selectionVars, convertVars, timeVars, otherVars>>

NextIngest == ParseXLSXFile \/ ParseCSVFile \/ ParseXLSXFileSimple

SpecIngest == InitIngest /\ [][NextIngest]_vars

\* the names handed to ensureUniqueHeaders by the ingestor of the file
NormalizerInput ==
    IF fileKind = "csv" THEN metaFields
    ELSE LET headerRowIndex == detectHeaderRow(rawData)
             headerCells == IF headerRowIndex < Len(rawData) THEN rawData[headerRowIndex + 1] ELSE <<>>
         IN  RawHeaders(headerCells,
                        ValidColumnIndices(headerCells, getMergedColumns(merges, headerRowIndex), 0, <<>>))

Occurrence(names, i) == Cardinality({ j \in 1 .. i : names[j] = names[i] })

\* C1: the output of ensureUniqueHeaders has the length of its input; position i holds
\* the input name when it is the first occurrence of that name and "<name> (k)" when it
\* is the k-th occurrence, k >= 2; the empty sequence yields the empty sequence.
C1_OccurrenceNumbering ==
    phase = "parsed" =>
        LET names == NormalizerInput
        IN  /\ Len(headers) = Len(names)
            /\ \A i \in 1 .. Len(names) :
                   LET k == Occurrence(names, i)
                       out == headers[i]
                       base == Len(names[i])
                       digits == SubSeq(out, base + 3, Len(out) - 1)
                   IN  IF k = 1 THEN out = names[i]
                       ELSE /\ Len(out) >= base + 4
                            /\ SubSeq(out, 1, base) = names[i]
                            /\ out[base + 1] = " " /\ out[base + 2] = "(" /\ out[Len(out)] = ")"
                            /\ IsDigits(digits) /\ digits[1] # "0"
                            /\ StringToNat(digits) = k

\* a name that occurs three times has been numbered (2) and (3)
C1_Witness ==
    /\ phase = "parsed"
    /\ NormalizerInput = <<nH, nH, nH>>
    /\ headers = <<nH, nH2, <<"H", " ", "(", "3", ")">> >>

\* C2 (as claimed): the Schema produced by ingestion contains no two equal entries.
C2_SchemaUnique ==
    phase = "parsed" =>
        \A i, j \in 1 .. Len(headers) : i # j => headers[i] # headers[j]

\* C3 (as claimed): every entry of the Schema produced by ingestion is a non-empty string.
C3_SchemaNonEmpty ==
    phase = "parsed" =>
        \A i \in 1 .. Len(headers) : headers[i] # <<>>

-----------------------------------------------------------------------------
(* Specification of detection: delimited files of two columns are parsed *)

\* at most this many data rows in a file of the detection runs
MaxRows == 5

\* a row object: the cells by column position, Undefined standing for a missing field
MkRow(schema, cells) ==
    [k \in { schema[i] : i \in { j \in 1 .. Len(schema) : cells[j] # Undefined } } |->
        cells[CHOOSE i \in 1 .. Len(schema) : schema[i] = k]]

DetectSchemas == { <<nHours, nID>>, <<nOVERTIME, nHours>> }
DetectRowSamples ==
    { <<Null, Undefined>>,
      <<Str(nNA), Num(MinReasonableHours * Den)>>,
      <<Num(MaxReasonableHours * Den), SevenAndHalf>>,
      <<SevenAndHalf, Undefined>>,
      <<Num(MinReasonableHours * Den - Den), Str(nNA)>>,
      <<Num(0), Num(MaxReasonableHours * Den + Den)>> }

InitDetect ==
    /\ phase = "uploaded"
    /\ fileKind = "csv"
    /\ metaFields \in DetectSchemas
    /\ \E cells \in SeqsUpTo(DetectRowSamples, MaxRows) :
           rawData = [r \in 1 .. Len(cells) |-> MkRow(metaFields, cells[r])]
    /\ merges = {}
    /\ parseError = "none"
    /\ IdleTable /\ IdleSelection /\ IdleConvert /\ IdleTime /\ IdleOther

NextDetect == ParseCSVFile

SpecDetect == InitDetect /\ [][NextDetect]_vars

\* the rows in which a column holds a value other than null/undefined, and a number
NonNullRows(h) == { r \in 1 .. Len(data) : NotNullish(Get(data[r], h)) }
NumericRows(h) == { r \in NonNullRows(h) : IsNumber(data[r][h]) }

\* some keyword occurs in the name, letter case ignored
NameHasKeyword(h) ==
    \E k \in 1 .. Len(timeKeywords) :
        \E off \in 0 .. Len(h) :
            /\ off + Len(timeKeywords[k]) <= Len(h)
            /\ \A j \in 1 .. Len(timeKeywords[k]) : LowerChar(h[off + j]) = timeKeywords[k][j]

InHourRange(n) == 0 - 1000 * Den <= n /\ n <= 1000 * Den

Qualifies(h) ==
    /\ NonNullRows(h) # {}
    /\ 10 * Cardinality(NumericRows(h)) >= 8 * Cardinality(NonNullRows(h))
    /\ \A r \in NumericRows(h) : InHourRange(data[r][h].n)
    /\ NameHasKeyword(h) \/ NumericRows(h) = NonNullRows(h)

\* C7: detectDecimalHourColumns returns exactly the schema-ordered subsequence of the
\* columns that have a non-null value, are at least 80% numeric, have every number in
\* [-1000, 1000] and either carry a keyword or are entirely numeric; so a column with a
\* number outside the range, or a keyword column below 80%, is never suggested.
C7_DetectExactly ==
    phase = "parsed" =>
        /\ suggestedColumns = SelectSeq(headers, Qualifies)
        /\ \A i \in 1 .. Len(headers) :
               (\E r \in NumericRows(headers[i]) : ~InHourRange(data[r][headers[i]].n))
                   => headers[i] \notin Range(suggestedColumns)
        /\ \A i \in 1 .. Len(headers) :
               5 * Cardinality(NumericRows(headers[i])) < 4 * Cardinality(NonNullRows(headers[i]))
                   => headers[i] \notin Range(suggestedColumns)

\* both columns are suggested, the keyword column with exactly four numbers in five values
C7_Witness ==
    /\ phase = "parsed"
    /\ headers = <<nOVERTIME, nHours>>
    /\ suggestedColumns = <<nOVERTIME, nHours>>
    /\ Cardinality(NonNullRows(nOVERTIME)) = 5
    /\ Cardinality(NumericRows(nOVERTIME)) = 4

-----------------------------------------------------------------------------
(* Specification of conversion: a delimited file is parsed, its columns are *)
(* selected in the column selector and the file is converted               *)

\* at most this many data rows in a file of the conversion runs
MaxConvertRows == 2

ConvertSchemas == { <<nHours, nID, nOVERTIME>>, <<nHours, nHours_hhmm, nOVERTIME>> }
ConvertRowSamples ==
    { <<c1, c2, c3>> : c1 \in {Undefined, Str(nNA), SevenAndHalf},
                       c2 \in {Str(nNA), ThreeAndQuarter},
                       c3 \in {Null, MinusSevenAndHalf} }

InitConvert ==
    /\ phase = "uploaded"
    /\ fileKind = "csv"
    /\ metaFields \in ConvertSchemas
    /\ \E cells \in SeqsUpTo(ConvertRowSamples, MaxConvertRows) :
           rawData = [r \in 1 .. Len(cells) |-> MkRow(metaFields, cells[r])]
    /\ merges = {}
    /\ parseError = "none"
    /\ IdleTable /\ IdleSelection /\ IdleConvert /\ IdleTime /\ IdleOther

\* handleAnalyze moves to the selection step; ColumnSelector's setup runs
OpenColumnSelector ==
    /\ phase = "parsed"
    /\ selectedColumns' = suggestedColumns
    /\ keepOriginalColumns' = FALSE
    /\ phase' = "select-columns"
    /\ UNCHANGED <<ingestVars, tableVars, convertVars, timeVars, otherVars>>

\* a checkbox of the column list is set
SetColumnChecked ==
    /\ phase = "select-columns"
    /\ \E i \in 1 .. Len(headers), checked \in BOOLEAN :
           selectedColumns' = setColumnChecked(selectedColumns, headers[i], checked)
    /\ UNCHANGED <<phase, ingestVars, tableVars, keepOriginalColumns, convertVars, timeVars, otherVars>>

SelectAll ==
    /\ phase = "select-columns"
    /\ selectedColumns' = headers
    /\ UNCHANGED <<phase, ingestVars, tableVars, keepOriginalColumns, convertVars, timeVars, otherVars>>

DeselectAll ==
    /\ phase = "select-columns"
    /\ selectedColumns' = <<>>
    /\ UNCHANGED <<phase, ingestVars, tableVars, keepOriginalColumns, convertVars, timeVars, otherVars>>

\* the "Keep original decimal columns" switch
SetKeepOriginal ==
    /\ phase = "select-columns"
    /\ keepOriginalColumns' \in BOOLEAN
    /\ UNCHANGED <<phase, ingestVars, tableVars, selectedColumns, convertVars, timeVars, otherVars>>

\* "Convert Files": ColumnSelector emits the selection, UploadForm.handleConvert
\* converts the file and hands the header list to the serializer
Convert ==
    /\ phase = "select-columns"
    /\ hasAnySelection(selectedColumns)
    /\ LET converted == convertCSVColumns(data, selectedColumns, keepOriginalColumns)
       IN  /\ convertedData' = converted.data
           /\ newHeaders' = converted.newHeaders
           /\ outputFields' = allHeaders(headers, converted.newHeaders)
    /\ phase' = "converted"
    /\ UNCHANGED <<ingestVars, tableVars, selectionVars, timeVars, otherVars>>

NextConvert ==
    \/ ParseCSVFile
    \/ OpenColumnSelector
    \/ SetColumnChecked
    \/ SelectAll
    \/ DeselectAll
    \/ SetKeepOriginal
    \/ Convert

SpecConvert == InitConvert /\ [][NextConvert]_vars

Selected == Range(selectedColumns)
Derived(c) == c \o hhmmSuffix
IndexIn(seq, x) == CHOOSE i \in 1 .. Len(seq) : seq[i] = x
NoDuplicates(seq) == \A i, j \in 1 .. Len(seq) : i # j => seq[i] # seq[j]

\* C8: with keepOriginal = false every number-typed cell at a selected column becomes
\* decimalToTime(value); every other cell is unchanged; the rows keep their number,
\* order and keys; newHeaders is empty and the header list is the Schema.
C8_ReplaceInPlace ==
    phase = "converted" /\ ~keepOriginalColumns =>
        /\ Len(convertedData) = Len(data)
        /\ \A r \in 1 .. Len(data) :
               /\ DOMAIN convertedData[r] = DOMAIN data[r]
               /\ \A k \in DOMAIN data[r] :
                      IF k \in Selected /\ IsNumber(data[r][k])
                      THEN convertedData[r][k] = Str(decimalToTime(data[r][k].n))
                      ELSE convertedData[r][k] = data[r][k]
        /\ newHeaders = <<>>
        /\ outputFields = headers

\* one row: the selected number is replaced, the selected text and the number at a
\* column that is not selected stay
C8_Witness ==
    /\ phase = "converted" /\ ~keepOriginalColumns
    /\ headers = <<nHours, nID, nOVERTIME>>
    /\ selectedColumns = <<nOVERTIME, nID>>
    /\ Len(data) = 2
    /\ data[1] = MkRow(headers, <<SevenAndHalf, Str(nNA), MinusSevenAndHalf>>)
    /\ convertedData[1] =
           MkRow(headers, <<SevenAndHalf, Str(nNA), Str(<<"-", "0", "7", ":", "3", "0">>)>>)

\* C9 (as claimed): with keepOriginal = true a selected column c with a number v in a
\* row keeps c = v and the row has "<c>_hhmm" = decimalToTime(v); a row without a number
\* at c gains no "<c>_hhmm" key; newHeaders holds "<c>_hhmm" exactly once for each
\* selected column that holds a number in some row, and nothing else; the header list
\* is the Schema followed by newHeaders.
C9_KeepOriginal ==
    phase = "converted" /\ keepOriginalColumns =>
        /\ Len(convertedData) = Len(data)
        /\ \A r \in 1 .. Len(data) : \A c \in Selected :
               IF IsNumber(Get(data[r], c))
               THEN /\ Get(convertedData[r], c) = data[r][c]
                    /\ Get(convertedData[r], Derived(c)) = Str(decimalToTime(data[r][c].n))
               ELSE Get(convertedData[r], Derived(c)) = Get(data[r], Derived(c))
        /\ NoDuplicates(newHeaders)
        /\ Range(newHeaders) =
               { Derived(c) : c \in { x \in Selected :
                                        \E r \in 1 .. Len(data) : IsNumber(Get(data[r], x)) } }
        /\ outputFields = headers \o newHeaders

\* C10 (as claimed): the derived keys stand in newHeaders in the schema order of their
\* source columns.
C10_SchemaOrder ==
    phase = "converted" /\ keepOriginalColumns =>
        \A i, j \in 1 .. Len(headers) :
            (/\ i < j
             /\ Derived(headers[i]) \in Range(newHeaders)
             /\ Derived(headers[j]) \in Range(newHeaders))
                => IndexIn(newHeaders, Derived(headers[i])) < IndexIn(newHeaders, Derived(headers[j]))

\* the i-th selected column reads a number in this row when its turn comes: the row
\* holds a number there and no earlier selected column has written its text under that key
RECURSIVE ProducedAt(_, _)
ProducedAt(row, i) ==
    /\ IsNumber(Get(row, selectedColumns[i]))
    /\ ~ \E j \in 1 .. (i - 1) :
           Derived(selectedColumns[j]) = selectedColumns[i] /\ ProducedAt(row, j)

Producers == { i \in 1 .. Len(selectedColumns) : \E r \in 1 .. Len(data) : ProducedAt(data[r], i) }
FirstRow(i) == CHOOSE r \in 1 .. Len(data) :
                   ProducedAt(data[r], i) /\ \A q \in 1 .. (r - 1) : ~ProducedAt(data[q], i)
\* i's derived key is first produced before j's: in an earlier row, or in the same row
\* and earlier in the selection
ProducedBefore(i, j) ==
    FirstRow(i) < FirstRow(j) \/ (FirstRow(i) = FirstRow(j) /\ i < j)

\* C10 (amended): newHeaders holds each derived key once, in the order of first
\* production: rows top to bottom and, within a row, the selected columns in the order
\* of the selection list.
C10_FirstProductionOrder ==
    phase = "converted" /\ keepOriginalColumns =>
        /\ NoDuplicates(newHeaders)
        /\ Range(newHeaders) = { Derived(selectedColumns[i]) : i \in Producers }
        /\ \A i, j \in Producers :
               ProducedBefore(i, j) <=>
                   IndexIn(newHeaders, Derived(selectedColumns[i]))
                       < IndexIn(newHeaders, Derived(selectedColumns[j]))

\* the selection lists the columns against the schema order and both are converted
C10_Witness ==
    /\ phase = "converted" /\ keepOriginalColumns
    /\ headers = <<nHours, nID, nOVERTIME>>
    /\ selectedColumns = <<nOVERTIME, nHours>>
    /\ newHeaders = <<Derived(nOVERTIME), Derived(nHours)>>
    /\ Len(data) = 1

-----------------------------------------------------------------------------
(* Specification of the codec: every sampled number is converted once *)

HourSamples == (0 .. MaxHours) \cup LargeHours

DecimalInputs ==
    { sg * (h * Den + r) : sg \in {-1, 1}, h \in HourSamples, r \in 0 .. (Den - 1) }

InitTime ==
    /\ phase = "time-ready"
    /\ decimal \in DecimalInputs
    /\ clock = <<>>
    /\ IdleIngest /\ IdleTable /\ IdleSelection /\ IdleConvert /\ IdleOther

DecimalToTime ==
    /\ phase = "time-ready"
    /\ clock' = decimalToTime(decimal)
    /\ phase' = "time-done"
    /\ UNCHANGED <<ingestVars, tableVars, selectionVars, convertVars, decimal, otherVars>>

NextTime == DecimalToTime

SpecTime == InitTime /\ [][NextTime]_vars

-----------------------------------------------------------------------------
(* Reading a clock string back: helpers of the codec properties *)

HasMinus(s) == Len(s) > 0 /\ s[1] = "-"
Unsigned(s) == IF HasMinus(s) THEN Tail(s) ELSE s
ColonAt(s) == { i \in 1 .. Len(s) : s[i] = ":" }
\* the text before and after the only colon of an unsigned clock string
HoursField(s) == LET p == CHOOSE i \in ColonAt(s) : TRUE IN SubSeq(s, 1, p - 1)
MinutesField(s) == LET p == CHOOSE i \in ColonAt(s) : TRUE IN SubSeq(s, p + 1, Len(s))

\* floor(|d|) in hours and the fractional part in ticks, stated without division
WholeHoursOf(d) == CHOOSE h \in 0 .. Abs(d) : h * Den <= Abs(d) /\ Abs(d) < (h + 1) * Den
\* the integer m with m <= x + 1/2 < m + 1, x = 60 * fraction (Math.round rounds halves up)
RoundedMinutesOf(d) ==
    LET r == Abs(d) - WholeHoursOf(d) * Den
    IN  CHOOSE m \in 0 .. 60 : 2 * m * Den <= 120 * r + Den /\ 120 * r + Den < 2 * (m + 1) * Den

C5_SignSymmetry ==
    phase = "time-done" /\ decimal # 0 =>
        /\ decimal < 0 => clock = <<"-">> \o decimalToTime(0 - decimal)
        /\ decimal > 0 => decimalToTime(0 - decimal) = <<"-">> \o clock
        /\ ~HasMinus(decimalToTime(Abs(decimal)))

\* a negative number with a non-zero minutes field has been converted
C5_Witness ==
    /\ phase = "time-done"
    /\ decimal < 0
    /\ clock = <<"-", "0", "3", ":", "1", "5">>

\* C6 (as claimed): the minutes field of every output is in 00..59, a rounded 60
\* being carried into the hours.
C6_MinutesBelow60 ==
    phase = "time-done" => StringToNat(MinutesField(Unsigned(clock))) <= 59

-----------------------------------------------------------------------------
(* Specification of repeated conversion: convertCSVColumns is applied to a  *)
(* table and then, with the same selection, to its own result              *)

\* at most this many rows in a table of the repeated-conversion runs
MaxReconvertRows == 1

\* the selections of a schema: its columns in any order, none twice
SelectionsOf(schema) ==
    { sel \in SeqsUpTo(Range(schema), Len(schema)) :
        \A i, j \in 1 .. Len(sel) : i # j => sel[i] # sel[j] }

InitReconvert ==
    /\ phase = "select-columns"
    /\ headers \in ConvertSchemas
    /\ \E cells \in SeqsUpTo(ConvertRowSamples, MaxReconvertRows) :
           data = [r \in 1 .. Len(cells) |-> MkRow(headers, cells[r])]
    /\ suggestedColumns = <<>>
    /\ selectedColumns \in SelectionsOf(headers)
    /\ keepOriginalColumns = FALSE
    /\ IdleIngest /\ IdleConvert /\ IdleTime /\ IdleOther

\* convertCSVColumns(data, columnsToConvert, false)
ConvertOnce ==
    /\ phase = "select-columns"
    /\ convertedData' = convertCSVColumns(data, selectedColumns, keepOriginalColumns).data
    /\ newHeaders' = convertCSVColumns(data, selectedColumns, keepOriginalColumns).newHeaders
    /\ phase' = "converted"
    /\ UNCHANGED <<ingestVars, tableVars, selectionVars, outputFields, timeVars, otherVars>>

\* convertCSVColumns(result of the first call, columnsToConvert, false): the table
\* handed to the second call is the first result
ConvertAgain ==
    /\ phase = "converted"
    /\ data' = convertedData
    /\ convertedData' = convertCSVColumns(convertedData, selectedColumns, keepOriginalColumns).data
    /\ newHeaders' = convertCSVColumns(convertedData, selectedColumns, keepOriginalColumns).newHeaders
    /\ phase' = "converted-again"
    /\ UNCHANGED <<ingestVars, headers, suggestedColumns, selectionVars, outputFields,
                   timeVars, otherVars>>

NextReconvert == ConvertOnce \/ ConvertAgain

SpecReconvert == InitReconvert /\ [][NextReconvert]_vars

\* C11: a second keepOriginal = false conversion with the same selection returns rows
\* equal to the first result (data holds the first result, the argument of the second
\* call; convertedData holds the second result).
C11_SecondPassNoOp ==
    phase = "converted-again" => convertedData = data

\* the first pass turned a selected number into a clock string, next to a text cell in
\* another selected column, and the second pass has run
C11_Witness ==
    /\ phase = "converted-again"
    /\ Len(data) = 1
    /\ nHours \in Range(selectedColumns)
    /\ Get(data[1], nHours) = Str(<<"0", "7", ":", "3", "0">>)
    /\ \E c \in Range(selectedColumns) : Get(data[1], c) = Str(nNA)

-----------------------------------------------------------------------------
(* File names: the dispatch of handleAnalyze and the output name of         *)
(* handleConvert                                                            *)

\* String.prototype.endsWith
endsWith(s, suffix) ==
    Len(s) >= Len(suffix) /\ SubSeq(s, Len(s) - Len(suffix) + 1, Len(s)) = suffix

dotCsv == <<".", "c", "s", "v">>
dotXlsx == <<".", "x", "l", "s", "x">>
UnsupportedFileType == <<"U", "n", "s", "u", "p", "p", "o", "r", "t", "e", "d", " ", "f", "i", "l", "e", " ", "t", "y", "p", "e", ":", " ">>
FailedToParseCSV == <<"F", "a", "i", "l", "e", "d", " ", "t", "o", " ", "p", "a", "r", "s", "e", " ", "C", "S", "V", ":", " ">>
FailedToParseXLSX == <<"F", "a", "i", "l", "e", "d", " ", "t", "o", " ", "p", "a", "r", "s", "e", " ", "X", "L", "S", "X", ":", " ">>
FailedToReadFile == <<"F", "a", "i", "l", "e", "d", " ", "t", "o", " ", "r", "e", "a", "d", " ", "f", "i", "l", "e">>
ErrorParsingFiles == <<"E", "r", "r", "o", "r", " ", "p", "a", "r", "s", "i", "n", "g", " ", "f", "i", "l", "e", "s", ":", " ">>
ErrorConvertingFiles == <<"E", "r", "r", "o", "r", " ", "c", "o", "n", "v", "e", "r", "t", "i", "n", "g", " ", "f", "i", "l", "e", "s", ":", " ">>
underscoreConverted == <<"_", "c", "o", "n", "v", "e", "r", "t", "e", "d">>

\* a promise of parsePromises: the file it was made for, the parser called for it
\* ("none" when the promise was made by Promise.reject), its state and, when
\* rejected, the message of its Error
Promise(file, parser, state, reason) ==
    [file |-> file, parser |-> parser, state |-> state, reason |-> reason]

\* the dispatch with a test of the extension as written, letter case included (mutant)
DispatchFileCaseSensitive(name) ==
    IF endsWith(name, dotCsv) THEN Promise(name, "parseCSVFile", "pending", <<>>)
    ELSE IF endsWith(name, dotXlsx) THEN Promise(name, "parseXLSXFile", "pending", <<>>)
    ELSE Promise(name, "none", "rejected", UnsupportedFileType \o name)

\* the callback of uploadedFiles.value.map in handleAnalyze
DispatchFile(name) ==
    LET lowered == toLowerCase(name)
    IN  IF endsWith(lowered, dotCsv) THEN Promise(name, "parseCSVFile", "pending", <<>>)
        ELSE IF endsWith(lowered, dotXlsx) THEN Promise(name, "parseXLSXFile", "pending", <<>>)
        ELSE Promise(name, "none", "rejected", UnsupportedFileType \o name)

\* /\.(csv|xlsx)$/i at index i (1-based): a dot followed by csv or xlsx, any letter
\* case, up to the end of the name
ExtensionMatchesAt(name, i) ==
    /\ name[i] = "."
    /\ toLowerCase(SubSeq(name, i + 1, Len(name))) \in {Tail(dotCsv), Tail(dotXlsx)}

\* the replacement made before the dot and the extension dropped (mutant)
replaceExtensionLowered(name) ==
    IF \E i \in 1 .. Len(name) : ExtensionMatchesAt(name, i)
    THEN LET i == CHOOSE k \in 1 .. Len(name) :
                      /\ ExtensionMatchesAt(name, k)
                      /\ \A j \in 1 .. (k - 1) : ~ExtensionMatchesAt(name, j)
         IN  SubSeq(name, 1, i - 1) \o underscoreConverted \o <<".">>
                 \o toLowerCase(SubSeq(name, i + 1, Len(name)))
    ELSE name

\* parsedFile.fileName.replace(/\.(csv|xlsx)$/i, '_converted.$1'): the leftmost match
\* is replaced, $1 being the matched extension as it is written in the name
replaceExtension(name) ==
    IF \E i \in 1 .. Len(name) : ExtensionMatchesAt(name, i)
    THEN LET i == CHOOSE k \in 1 .. Len(name) :
                      /\ ExtensionMatchesAt(name, k)
                      /\ \A j \in 1 .. (k - 1) : ~ExtensionMatchesAt(name, j)
         IN  SubSeq(name, 1, i - 1) \o underscoreConverted \o <<".">>
                 \o SubSeq(name, i + 1, Len(name))
    ELSE name

-----------------------------------------------------------------------------
(* Specification of the file names: a name is dispatched by handleAnalyze   *)
(* and, when a parser took it, named by handleConvert                       *)

\* at most this many characters before the sampled endings of a name
MaxStemLen == 2

NameStems ==
    SeqsUpTo({"a", ".", "C"}, MaxStemLen) \cup { <<"a">> \o dotCsv, <<"r">> \o dotXlsx }
NameEndings ==
    { dotCsv, <<".", "C", "S", "V">>, <<".", "c", "S", "v">>, dotXlsx, <<".", "X", "L", "S", "X">>, <<".", "X", "l", "S", "x">>,
      <<".", "t", "x", "t">>, <<".", "c", "s", "v", "x">>, <<".", "x", "l", "s">>, <<"c", "s", "v">>, <<>>,
      dotCsv \o <<" ">>, dotXlsx \o <<".", "z", "i", "p">> }
NameInputs == { stem \o ending : stem \in NameStems, ending \in NameEndings }

InitNames ==
    /\ phase = "named"
    /\ fileName \in NameInputs
    /\ convertedFileName = <<>>
    /\ headerRow = -1
    /\ IdleIngest /\ IdleTable /\ IdleSelection /\ IdleConvert /\ IdleTime /\ IdleWizard

\* handleAnalyze, the dispatch of one file
DispatchName ==
    /\ phase = "named"
    /\ parsePromises' = <<DispatchFile(fileName)>>
    /\ phase' = "dispatched"
    /\ UNCHANGED <<ingestVars, tableVars, selectionVars, convertVars, timeVars, headerRow,
                   nameVars, currentStep, files, uploadedFiles, parsedFiles, isProcessing,
                   errorMessage, conversionProgress, convertArgs, convertPc, convertIndex,
                   zip, downloads>>

\* handleConvert, the output name of one parsed file
NameOutput ==
    /\ phase = "dispatched"
    /\ parsePromises[1].parser # "none"
    /\ convertedFileName' = replaceExtension(fileName)
    /\ phase' = "output-named"
    /\ UNCHANGED <<ingestVars, tableVars, selectionVars, convertVars, timeVars, headerRow,
                   fileName, wizardVars>>

NextNames == DispatchName \/ NameOutput

SpecNames == InitNames /\ [][NextNames]_vars

\* the name ends in the extension ext (lower case, dot included), letter case ignored
HasExtension(name, ext) ==
    /\ Len(name) >= Len(ext)
    /\ \A j \in 1 .. Len(ext) : LowerChar(name[Len(name) - Len(ext) + j]) = ext[j]

\* C13: a name whose lower-cased form ends in neither ".csv" nor ".xlsx" is rejected
\* at dispatch, no parser being called for it, with an error message that contains
\* the name; a name with one of the two extensions in any letter case goes to the
\* matching parser.
C13_UnsupportedRejected ==
    phase \in {"dispatched", "output-named"} =>
        LET p == parsePromises[1]
        IN  /\ HasExtension(fileName, dotCsv) =>
                p.parser = "parseCSVFile" /\ p.state = "pending"
            /\ ~HasExtension(fileName, dotCsv) /\ HasExtension(fileName, dotXlsx) =>
                p.parser = "parseXLSXFile" /\ p.state = "pending"
            /\ ~HasExtension(fileName, dotCsv) /\ ~HasExtension(fileName, dotXlsx) =>
                /\ p.parser = "none"
                /\ p.state = "rejected"
                /\ Includes(p.reason, fileName)
                /\ Includes(p.reason, <<"U", "n", "s", "u", "p", "p", "o", "r", "t", "e", "d", " ", "f", "i", "l", "e", " ", "t", "y", "p", "e">>)

\* "a.csvx" has been rejected at dispatch, no parser called
C13_Witness ==
    /\ phase = "dispatched"
    /\ fileName = <<"a", ".", "c", "s", "v", "x">>
    /\ parsePromises[1].parser = "none"
    /\ parsePromises[1].state = "rejected"
    /\ parsePromises[1].reason = UnsupportedFileType \o fileName

\* C16: the output name of an accepted name is the name with "_converted" put
\* immediately before its extension (the last 4 characters of a .csv name, the last 5
\* of a .xlsx name), the rest and the extension's letter case unchanged.
C16_OutputName ==
    phase = "output-named" =>
        LET n == Len(fileName)
            k == IF HasExtension(fileName, dotCsv) THEN Len(dotCsv) ELSE Len(dotXlsx)
        IN  convertedFileName =
                SubSeq(fileName, 1, n - k) \o underscoreConverted \o SubSeq(fileName, n - k + 1, n)

\* "a.csv.CSV" has been named "a.csv_converted.CSV"
C16_Witness ==
    /\ phase = "output-named"
    /\ fileName = <<"a", ".", "c", "s", "v", ".", "C", "S", "V">>
    /\ convertedFileName = <<"a", ".", "c", "s", "v", "_", "c", "o", "n", "v", "e", "r", "t", "e", "d", ".", "C", "S", "V">>

-----------------------------------------------------------------------------
(* The upload wizard: FileUpload, UploadForm.handleAnalyze and              *)
(* UploadForm.handleConvert.  A file is known by its name; the table of a   *)
(* parsed file is the subject of the specifications above and is left out.  *)

\* at most this many files in one add-files event
MaxBatch == 2
\* at most this many files in the list of FileUpload
MaxListed == 2

nACsv == <<"a", ".", "c", "s", "v">>
nBXlsx == <<"b", ".", "X", "L", "S", "X">>
nCTxt == <<"c", ".", "t", "x", "t">>

\* the files of one add-files event: one or several files, supported and not, of
\* different and of equal names
BatchSamples ==
    { <<nACsv>>, <<nCTxt>>, <<nACsv, nBXlsx>>, <<nACsv, nACsv>>, <<nACsv, nCTxt>>,
      <<nCTxt, nBXlsx>>, <<nACsv, nBXlsx, nACsv>> }

\* error.message of a failure below the model (Papa Parse, SheetJS, JSZip)
ErrorDetail == <<"b", "a", "d">>

\* the messages a parser's promise can be rejected with
ParseFailures(parser) ==
    IF parser = "parseCSVFile" THEN { FailedToParseCSV \o ErrorDetail }
    ELSE { FailedToParseXLSX \o ErrorDetail, FailedToReadFile }

\* the values of selectedColumns[fileName] the column selector emits for a file
SelectionChoices == { <<>>, <<nHours>> }

\* everything but the wizard
pipelineVars == <<phase, ingestVars, tableVars, selectionVars, convertVars, timeVars,
                  headerRow, nameVars>>

\* Array.prototype.splice(index, 1), index 1-based
RemoveAt(s, index) == SubSeq(s, 1, index - 1) \o SubSeq(s, index + 1, Len(s))

\* the await of handleAnalyze is pending
AnalyzePending == currentStep = "upload" /\ isProcessing

InitWizard ==
    /\ phase = "wizard"
    /\ IdleIngest /\ IdleTable /\ IdleSelection /\ IdleConvert /\ IdleTime
    /\ IdleHeaderRow /\ IdleNames /\ IdleWizard

\* FileUpload.addFiles (file dialog or drop): the list grows by the new files and
\* filesSelected carries the new files only; handleFilesSelected stores them
AddFiles ==
    /\ currentStep = "upload"
    /\ \E batch \in { b \in BatchSamples : Len(b) <= MaxBatch } :
           /\ Len(files) + Len(batch) <= MaxListed
           /\ files' = files \o batch
           /\ uploadedFiles' = batch
    /\ UNCHANGED <<pipelineVars, currentStep, parsePromises, parsedFiles, isProcessing, errorMessage,
                   conversionProgress, convertArgs, convertPc, convertIndex, zip, downloads>>

\* FileUpload.removeFile: the entry leaves the list; handleFileRemoved only logs
RemoveFile ==
    /\ currentStep = "upload"
    /\ \E index \in 1 .. Len(files) : files' = RemoveAt(files, index)
    /\ UNCHANGED <<pipelineVars, currentStep, uploadedFiles, parsePromises, parsedFiles, isProcessing,
                   errorMessage, conversionProgress, convertArgs, convertPc, convertIndex,
                   zip, downloads>>

\* FileUpload.clearAll by its "Clear all" button (shown when the list has files)
ClearAll ==
    /\ currentStep = "upload"
    /\ Len(files) > 0
    /\ files' = <<>>
    /\ UNCHANGED <<pipelineVars, currentStep, uploadedFiles, parsePromises, parsedFiles, isProcessing,
                   errorMessage, conversionProgress, convertArgs, convertPc, convertIndex,
                   zip, downloads>>

\* UploadForm.resetForm by the Reset button (disabled while isProcessing)
ResetForm ==
    /\ currentStep = "upload"
    /\ ~isProcessing
    /\ uploadedFiles' = <<>>
    /\ parsedFiles' = <<>>
    /\ errorMessage' = <<>>
    /\ files' = <<>>
    /\ UNCHANGED <<pipelineVars, currentStep, parsePromises, isProcessing,
                   conversionProgress, convertArgs, convertPc, convertIndex, zip, downloads>>

\* the button Next is enabled
NextEnabled == currentStep = "upload" /\ ~(isProcessing \/ Len(uploadedFiles) = 0)

\* handleAnalyze up to its await, and past it when a promise made by Promise.reject
\* lets Promise.all reject before any other event is handled
HandleAnalyze ==
    /\ NextEnabled
    /\ LET promises == [i \in 1 .. Len(uploadedFiles) |-> DispatchFile(uploadedFiles[i])]
           rejected == { i \in 1 .. Len(promises) : promises[i].state = "rejected" }
       IN  /\ parsePromises' = promises
           /\ IF rejected # {}
              THEN LET first == CHOOSE i \in rejected : \A j \in rejected : i <= j
                   IN  /\ errorMessage' = ErrorParsingFiles \o promises[first].reason
                       /\ isProcessing' = FALSE
              ELSE /\ errorMessage' = <<>>
                   /\ isProcessing' = TRUE
    /\ UNCHANGED <<pipelineVars, currentStep, files, uploadedFiles, parsedFiles,
                   conversionProgress, convertArgs, convertPc, convertIndex, zip, downloads>>

\* a parser resolves its promise; when it was the last one awaited, handleAnalyze
\* stores the results and moves to the selection step (FileUpload is unmounted)
ParseFulfilled ==
    \E i \in 1 .. Len(parsePromises) :
        /\ parsePromises[i].state = "pending"
        /\ LET promises == [parsePromises EXCEPT ![i].state = "fulfilled"]
           IN  /\ parsePromises' = promises
               /\ IF AnalyzePending /\ \A j \in 1 .. Len(promises) : promises[j].state = "fulfilled"
                  THEN /\ parsedFiles' = [j \in 1 .. Len(promises) |-> [fileName |-> promises[j].file]]
                       /\ currentStep' = "select-columns"
                       /\ isProcessing' = FALSE
                       /\ files' = <<>>
                  ELSE UNCHANGED <<parsedFiles, currentStep, isProcessing, files>>
        /\ UNCHANGED <<pipelineVars, uploadedFiles, errorMessage, conversionProgress,
                       convertArgs, convertPc, convertIndex, zip, downloads>>

\* a rejection that handleAnalyze swallows: it keeps waiting for the other files
\* and shows no error (mutant)
ParseRejectedSilently ==
    \E i \in 1 .. Len(parsePromises) :
        /\ parsePromises[i].state = "pending"
        /\ \E reason \in ParseFailures(parsePromises[i].parser) :
               /\ parsePromises' = [parsePromises EXCEPT ![i].state = "rejected",
                                                         ![i].reason = reason]
               /\ UNCHANGED <<errorMessage, isProcessing>>
        /\ UNCHANGED <<pipelineVars, currentStep, files, uploadedFiles, parsedFiles,
                       conversionProgress, convertArgs, convertPc, convertIndex, zip, downloads>>

\* a parser rejects its promise; an awaiting handleAnalyze ends in its catch
ParseRejected ==
    \E i \in 1 .. Len(parsePromises) :
        /\ parsePromises[i].state = "pending"
        /\ \E reason \in ParseFailures(parsePromises[i].parser) :
               /\ parsePromises' = [parsePromises EXCEPT ![i].state = "rejected",
                                                         ![i].reason = reason]
               /\ IF AnalyzePending
                  THEN /\ errorMessage' = ErrorParsingFiles \o reason
                       /\ isProcessing' = FALSE
                  ELSE UNCHANGED <<errorMessage, isProcessing>>
        /\ UNCHANGED <<pipelineVars, currentStep, files, uploadedFiles, parsedFiles,
                       conversionProgress, convertArgs, convertPc, convertIndex, zip, downloads>>

\* UploadForm.handleBack by the Back button of the column selector; FileUpload is
\* mounted anew with an empty list
HandleBack ==
    /\ currentStep = "select-columns"
    /\ currentStep' = "upload"
    /\ parsedFiles' = <<>>
    /\ UNCHANGED <<pipelineVars, files, uploadedFiles, parsePromises, isProcessing,
                   errorMessage, conversionProgress, convertArgs, convertPc, convertIndex,
                   zip, downloads>>

\* selectedColumns.get(fileName) || []
SelectedFor(args, name) == IF name \in DOMAIN args THEN args[name] ELSE <<>>

\* conversionProgress.value.find((p) => p.fileName === name), then its status is set
MarkFirst(progress, name, status) ==
    LET found == { p \in 1 .. Len(progress) : progress[p].fileName = name }
    IN  IF found = {} THEN progress
        ELSE [progress EXCEPT ![CHOOSE p \in found : \A q \in found : p <= q].status = status]

\* the loop head that marks every file with a selection 'converting' at once (mutant)
EnterLoopAllAtOnce(k, progress) ==
    LET rest == { j \in k .. Len(parsedFiles) :
                    Len(SelectedFor(convertArgs, parsedFiles[j].fileName)) > 0 }
    IN  IF rest = {}
        THEN [pc |-> "generateAsync", index |-> Len(parsedFiles) + 1, progress |-> progress]
        ELSE LET j == CHOOSE x \in rest : \A y \in rest : x <= y
             IN  [pc |-> "delay300", index |-> j,
                  progress |-> [p \in 1 .. Len(progress) |->
                                   [progress[p] EXCEPT !.status = "converting"]]]

\* the head of the for-of loop from position k of parsedFiles: files without a
\* selection are passed over; the first file with one is marked 'converting' and the
\* loop waits in delay(300); past the last file the loop ends and handleConvert waits
\* for zip.generateAsync
EnterLoop(k, progress) ==
    LET rest == { j \in k .. Len(parsedFiles) :
                    Len(SelectedFor(convertArgs, parsedFiles[j].fileName)) > 0 }
    IN  IF rest = {}
        THEN [pc |-> "generateAsync", index |-> Len(parsedFiles) + 1, progress |-> progress]
        ELSE LET j == CHOOSE x \in rest : \A y \in rest : x <= y
             IN  [pc |-> "delay300", index |-> j,
                  progress |-> MarkFirst(progress, parsedFiles[j].fileName, "converting")]

\* "Convert Files": ColumnSelector.handleConvert emits the selection of every file
\* name (the button is disabled unless some selection is non-empty) and
\* UploadForm.handleConvert runs up to await nextTick()
HandleConvert ==
    /\ currentStep = "select-columns"
    /\ \E selected \in [{ parsedFiles[j].fileName : j \in 1 .. Len(parsedFiles) } -> SelectionChoices] :
           /\ \E name \in DOMAIN selected : Len(selected[name]) > 0
           /\ convertArgs' = selected
           /\ conversionProgress' =
                  [p \in 1 .. Len(SelectSeq(parsedFiles,
                                   LAMBDA file : Len(SelectedFor(selected, file.fileName)) > 0)) |->
                      [fileName |-> SelectSeq(parsedFiles,
                                        LAMBDA file : Len(SelectedFor(selected, file.fileName)) > 0)[p].fileName,
                       status |-> "pending"]]
    /\ currentStep' = "converting"
    /\ isProcessing' = TRUE
    /\ errorMessage' = <<>>
    /\ convertPc' = "nextTick"
    /\ convertIndex' = 0
    /\ zip' = <<>>
    /\ downloads' = <<>>
    /\ UNCHANGED <<pipelineVars, files, uploadedFiles, parsePromises, parsedFiles>>

\* handleConvert resumes after nextTick: new JSZip(), then the loop head
ConvertBegin ==
    /\ convertPc = "nextTick"
    /\ zip' = <<>>
    /\ LET head == EnterLoop(1, conversionProgress)
       IN  /\ convertPc' = head.pc
           /\ convertIndex' = head.index
           /\ conversionProgress' = head.progress
    /\ UNCHANGED <<pipelineVars, currentStep, files, uploadedFiles, parsePromises, parsedFiles,
                   isProcessing, errorMessage, convertArgs, downloads>>

\* a conversion that reports a failing file and goes on with the next one (mutant)
ConvertFileSkipFailed ==
    /\ convertPc = "delay300"
    /\ \E throws \in BOOLEAN :
           IF throws
           THEN /\ errorMessage' = ErrorConvertingFiles \o ErrorDetail
                /\ convertPc' = "delay200"
                /\ UNCHANGED <<zip, conversionProgress, isProcessing>>
           ELSE /\ zip' = Put(zip, replaceExtension(parsedFiles[convertIndex].fileName),
                              [file |-> convertIndex,
                               columns |-> SelectedFor(convertArgs, parsedFiles[convertIndex].fileName)])
                /\ conversionProgress' =
                       MarkFirst(conversionProgress, parsedFiles[convertIndex].fileName, "complete")
                /\ convertPc' = "delay200"
                /\ UNCHANGED <<errorMessage, isProcessing>>
    /\ UNCHANGED <<pipelineVars, currentStep, files, uploadedFiles, parsePromises, parsedFiles,
                   convertArgs, convertIndex, downloads>>

\* handleConvert resumes after delay(300): the file is converted and serialized and
\* its output is put into the zip under the output name, then the file is marked
\* 'complete' and the loop waits in delay(200); or a call throws and handleConvert
\* ends in its catch and finally
ConvertFile ==
    /\ convertPc = "delay300"
    /\ \E throws \in BOOLEAN :
           IF throws
           THEN /\ errorMessage' = ErrorConvertingFiles \o ErrorDetail
                /\ isProcessing' = FALSE
                /\ convertPc' = "idle"
                /\ UNCHANGED <<zip, conversionProgress>>
           ELSE /\ zip' = Put(zip, replaceExtension(parsedFiles[convertIndex].fileName),
                              [file |-> convertIndex,
                               columns |-> SelectedFor(convertArgs, parsedFiles[convertIndex].fileName)])
                /\ conversionProgress' =
                       MarkFirst(conversionProgress, parsedFiles[convertIndex].fileName, "complete")
                /\ convertPc' = "delay200"
                /\ UNCHANGED <<errorMessage, isProcessing>>
    /\ UNCHANGED <<pipelineVars, currentStep, files, uploadedFiles, parsePromises, parsedFiles,
                   convertArgs, convertIndex, downloads>>

\* handleConvert resumes after delay(200): the loop head for the next file
ConvertNext ==
    /\ convertPc = "delay200"
    /\ LET head == EnterLoop(convertIndex + 1, conversionProgress)
       IN  /\ convertPc' = head.pc
           /\ convertIndex' = head.index
           /\ conversionProgress' = head.progress
    /\ UNCHANGED <<pipelineVars, currentStep, files, uploadedFiles, parsePromises, parsedFiles,
                   isProcessing, errorMessage, convertArgs, zip, downloads>>

\* handleConvert resumes after zip.generateAsync: downloadBlob, resetForm (FileUpload
\* is not mounted, so its clearAll is not called; it is mounted anew with an empty
\* list) and finally; or generateAsync rejects: catch and finally
ZipGenerated ==
    /\ convertPc = "generateAsync"
    /\ \E throws \in BOOLEAN :
           IF throws
           THEN /\ errorMessage' = ErrorConvertingFiles \o ErrorDetail
                /\ UNCHANGED <<downloads, currentStep, uploadedFiles, parsedFiles>>
           ELSE /\ downloads' = Append(downloads, zip)
                /\ currentStep' = "upload"
                /\ uploadedFiles' = <<>>
                /\ parsedFiles' = <<>>
                /\ errorMessage' = <<>>
    /\ isProcessing' = FALSE
    /\ convertPc' = "idle"
    /\ UNCHANGED <<pipelineVars, files, parsePromises, conversionProgress, convertArgs,
                   convertIndex, zip>>

NextWizard ==
    \/ AddFiles
    \/ RemoveFile
    \/ ClearAll
    \/ ResetForm
    \/ HandleAnalyze
    \/ ParseFulfilled
    \/ ParseRejected
    \/ HandleBack
    \/ HandleConvert
    \/ ConvertBegin
    \/ ConvertFile
    \/ ConvertNext
    \/ ZipGenerated

SpecWizard == InitWizard /\ [][NextWizard]_vars

\* a promise of the awaited analysis is rejected in this step: by a parser, or by
\* Promise.reject within handleAnalyze
AnalysisFails ==
    \/ /\ AnalyzePending
       /\ \E i \in 1 .. Len(parsePromises) :
              /\ parsePromises[i].state = "pending"
              /\ Len(parsePromises') = Len(parsePromises)
              /\ parsePromises'[i].state = "rejected"
    \/ /\ HandleAnalyze
       /\ \E i \in 1 .. Len(parsePromises') : parsePromises'[i].state = "rejected"

\* C12: when the parse of any file of the batch fails, the wizard stays on the upload
\* step, parsedFiles is not replaced (it stays empty), an error message is set and
\* isProcessing is false again; the wizard leaves the upload step only with every
\* file of the batch parsed.
C12_IngestAllOrNothing ==
    [][ /\ AnalysisFails =>
              /\ currentStep' = "upload"
              /\ parsedFiles' = <<>>
              /\ Includes(errorMessage', ErrorParsingFiles)
              /\ ~isProcessing'
        /\ currentStep = "upload" /\ currentStep' # "upload" =>
              /\ currentStep' = "select-columns"
              /\ \A i \in 1 .. Len(parsePromises') : parsePromises'[i].state = "fulfilled"
              /\ parsedFiles' = [i \in 1 .. Len(parsePromises') |->
                                    [fileName |-> parsePromises'[i].file]]
      ]_vars

\* of a batch of two files the first has been parsed and the second has failed in
\* its parser: the batch has failed
C12_Witness ==
    /\ Len(parsePromises) = 2
    /\ parsePromises[1].state = "fulfilled"
    /\ parsePromises[2].state = "rejected"
    /\ parsePromises[2].parser = "parseXLSXFile"
    /\ errorMessage = ErrorParsingFiles \o FailedToReadFile
    /\ currentStep = "upload"
    /\ parsedFiles = <<>>
    /\ ~isProcessing

\* the files being ingested (their parser runs for the awaited analysis) and the
\* files being converted
Ingesting == { i \in 1 .. Len(parsePromises) : AnalyzePending /\ parsePromises[i].state = "pending" }
Converting == { p \in 1 .. Len(conversionProgress) : conversionProgress[p].status = "converting" }

WithSelection ==
    { j \in 1 .. Len(parsedFiles) : Len(SelectedFor(convertArgs, parsedFiles[j].fileName)) > 0 }

ThrowEndsRun ==
    convertPc \in {"delay300", "generateAsync"} /\ errorMessage' # <<>> =>
        /\ Includes(errorMessage', ErrorConvertingFiles \o ErrorDetail)
        /\ ~isProcessing'
        /\ convertPc' = "idle"
        /\ currentStep' = "converting"
        /\ downloads' = <<>>
        /\ zip' = zip
        /\ conversionProgress' = conversionProgress

\* a run of handleConvert that has ended in its catch
FailedRunInert ==
    currentStep = "converting" /\ convertPc = "idle" =>
        /\ downloads = <<>>
        /\ errorMessage # <<>>
        /\ \A name \in DOMAIN zip : zip[name].file < convertIndex

\* C15: when the conversion or serialization of a file (or the archive generation)
\* throws, handleConvert ends there: the error message is shown, isProcessing is
\* false, no download is triggered and no later file is converted; a run that has
\* failed never downloads.
C15_ConvertAllOrNothing == [][ThrowEndsRun]_vars /\ []FailedRunInert

\* the second of two files has thrown: the output of the first is in the zip, which
\* is dropped
C15_Witness ==
    /\ currentStep = "converting"
    /\ convertPc = "idle"
    /\ convertIndex = 2
    /\ DOMAIN zip = {replaceExtension(nACsv)}
    /\ errorMessage = ErrorConvertingFiles \o ErrorDetail
    /\ downloads = <<>>
    /\ ~isProcessing

\* C17 (as claimed): in every state reached by add-files, remove-file, clear-all and
\* reset actions alone (no analysis has been started) in which the list of FileUpload
\* shows no file, the button Next is disabled.
C17_NextDisabledWithoutFiles ==
    currentStep = "upload" /\ parsePromises = <<>> /\ files = <<>> => ~NextEnabled

-----------------------------------------------------------------------------
(* Specification of the header-row discovery: detectHeaderRow is applied to *)
(* grids with and without a report header                                   *)

\* at most this many rows in a grid of the header-row runs
MaxGridRows == 16

\* rows of the top of a sheet: empty, or holding report markers inside longer texts
BlankRow == <<Null>>
TimePeriodRow == <<Str(markers[1] \o <<":">>)>>
ExecutedOnRow == <<Null, Str(<<"(">> \o markers[2] \o <<")">>)>>
QueryRow == <<Str(markers[3])>>
TwoMarkerRow == <<Str(markers[1]), Str(markers[2])>>

\* wide rows: five texts; three texts and two numbers; two texts and three numbers;
\* four texts; five numbers and three empty texts
FiveTexts == <<Str(nH), Str(nN), Str(nH), Str(nN), Str(nH)>>
ThreeTextsTwoNumbers == <<Str(nH), Num(Den), Str(nN), Num(Den), Str(nH), Null>>
TwoTextsThreeNumbers == <<Str(nH), Num(Den), Str(nN), Num(Den), Num(Den)>>
FourTexts == <<Str(nH), Str(nN), Str(nH), Str(nN), Null, Str(<<>>)>>
FiveNumbersThreeEmptyTexts ==
    <<Num(Den), Str(<<>>), Num(Den), Str(<<>>), Num(Den), Str(<<>>), Num(Den), Num(Den)>>

TopSamples ==
    { <<TimePeriodRow, ExecutedOnRow, BlankRow>>,
      <<TimePeriodRow, TimePeriodRow, BlankRow>>,
      <<BlankRow, QueryRow, BlankRow>>,
      <<FiveTexts, BlankRow, BlankRow>>,
      <<BlankRow, BlankRow, TwoMarkerRow>> }
BodyRowSamples ==
    { FiveTexts, ThreeTextsTwoNumbers, TwoTextsThreeNumbers, FourTexts,
      FiveNumbersThreeEmptyTexts, ExecutedOnRow }

\* the numbers of rows below the top: short sheets, and sheets that reach the rows
\* at which the search for the column header row ends
BodyLengths == (0 .. 5) \cup {MaxGridRows - 4, MaxGridRows - 3}

\* the rows below the top: blank but for at most two rows
Bodies ==
    UNION { { [r \in 1 .. n |-> BlankRow] }
            \cup { [r \in 1 .. n |-> IF r = p THEN a ELSE BlankRow] :
                       p \in 1 .. n, a \in BodyRowSamples }
            \cup { [r \in 1 .. n |-> IF r = p THEN a ELSE IF r = q THEN b ELSE BlankRow] :
                       p \in 1 .. n, q \in 2 .. n, a \in BodyRowSamples, b \in BodyRowSamples }
            : n \in BodyLengths }

HeaderRowGrids ==
    { <<>>, <<TwoMarkerRow>>, <<FiveTexts>> }
    \cup { top \o body : top \in TopSamples, body \in Bodies }

InitHeaderRow ==
    /\ phase = "sheet-read"
    /\ fileKind = "xlsx"
    /\ metaFields = <<>>
    /\ rawData \in HeaderRowGrids
    /\ merges = {}
    /\ parseError = "none"
    /\ headerRow = -1
    /\ IdleTable /\ IdleSelection /\ IdleConvert /\ IdleTime /\ IdleNames /\ IdleWizard

\* parseXLSXSheet: const headerRowIndex = detectHeaderRow(rawData)
DetectHeaderRow ==
    /\ phase = "sheet-read"
    /\ headerRow' = detectHeaderRow(rawData)
    /\ phase' = "header-detected"
    /\ UNCHANGED <<ingestVars, tableVars, selectionVars, convertVars, timeVars, nameVars,
                   wizardVars>>

NextHeaderRow == DetectHeaderRow

SpecHeaderRow == InitHeaderRow /\ [][NextHeaderRow]_vars

\* the markers that occur inside a text cell of rows from .. to (0-based)
MarkersIn(from, to) ==
    { m \in 1 .. Len(markers) :
        \E r \in (from + 1) .. (to + 1) :
            /\ r <= Len(rawData)
            /\ \E c \in 1 .. Len(rawData[r]) :
                   rawData[r][c].t = "string" /\ Includes(rawData[r][c].s, markers[m]) }

\* the non-empty cells of row i (0-based), and the texts among them
NonEmptyCells(i) ==
    { c \in 1 .. Len(rawData[i + 1]) :
        rawData[i + 1][c].t \in {"string", "number"} /\ rawData[i + 1][c] # Str(<<>>) }
TextCells(i) == { c \in NonEmptyCells(i) : rawData[i + 1][c].t = "string" }

\* row i has at least 5 non-empty cells of which at least 60% are texts
MostlyTexts(i) ==
    /\ Cardinality(NonEmptyCells(i)) >= 5
    /\ 10 * Cardinality(TextCells(i)) >= 6 * Cardinality(NonEmptyCells(i))

\* the test of findColumnHeaderRow on row i: every text cell counts, an empty one too
PassesHeaderTest(i) ==
    /\ Cardinality(NonEmptyCells(i)) >= 5
    /\ 10 * Cardinality({ c \in 1 .. Len(rawData[i + 1]) : rawData[i + 1][c].t = "string" })
           >= 6 * Cardinality(NonEmptyCells(i))

\* C18 (as claimed): a grid with at least 2 of the 3 markers in rows 0-2 and a row 6 of
\* at least 5 non-empty, mostly text cells has header row 6.
C18_HeaderRowSix ==
    /\ phase = "header-detected"
    /\ Cardinality(MarkersIn(0, 2)) >= 2
    /\ Len(rawData) > 6
    /\ MostlyTexts(6)
    => headerRow = 6

\* C18: such a grid has header row 6 when no row of rows 3-5 passes the test of the
\* search (at least 5 non-empty cells, the text cells - empty ones included - being
\* at least 60% of that number); when a row of rows 3-5 passes it, the header row is
\* the first such row; it is never row 0.
C18_HeaderRowSixUnlessEarlier ==
    /\ phase = "header-detected"
    /\ Cardinality(MarkersIn(0, 2)) >= 2
    /\ Len(rawData) > 6
    /\ MostlyTexts(6)
    => /\ headerRow \in 3 .. 6
       /\ \A i \in 3 .. 6 : headerRow = i <=>
              PassesHeaderTest(i) /\ \A j \in 3 .. (i - 1) : ~PassesHeaderTest(j)

\* a grid with a report header, a wide row of too few texts at row 4 and the column
\* header row at row 6
C18_Witness ==
    /\ phase = "header-detected"
    /\ rawData = <<TimePeriodRow, ExecutedOnRow, BlankRow, BlankRow, TwoTextsThreeNumbers,
                   BlankRow, FiveTexts>>
    /\ headerRow = 6

\* C20 (as claimed): with fewer than 2 distinct markers in rows 0..5 the header row is
\* 0; otherwise it is the lowest i in 3..min(14, length - 1) whose row has at least 5
\* non-empty cells of which at least 60% are texts, and 6 when there is no such row.
C20_HeaderRowRule ==
    phase = "header-detected" =>
        LET candidates == { i \in 3 .. 14 : i <= Len(rawData) - 1 /\ MostlyTexts(i) }
        IN  headerRow =
                IF Cardinality(MarkersIn(0, 5)) < 2 THEN 0
                ELSE IF candidates = {} THEN 6
                ELSE CHOOSE i \in candidates : \A j \in candidates : i <= j

-----------------------------------------------------------------------------
(* The output format as the in-app help documents it *)

\* C19 (as documented): decimal hours are rendered as hh:mm:ss - hours, minutes and a
\* seconds field - e.g. 8.5 as "08:30:00", with a leading minus sign for negative
\* values.
C19_DocumentedFormat ==
    phase = "time-done" =>
        LET body == Unsigned(clock)
        IN  /\ HasMinus(clock) <=> decimal < 0
            /\ Cardinality(ColonAt(body)) = 2
            /\ 2 * decimal = 17 * Den =>
                   clock = <<"0", "8", ":", "3", "0", ":", "0", "0">>

-----------------------------------------------------------------------------
(* Spreadsheet ingestion, column by column: what a parsed sheet must hold *)

\* the header row of the sheet being ingested, and its cells
SheetHeaderRow == detectHeaderRow(rawData)
SheetHeaderCells ==
    IF SheetHeaderRow < Len(rawData) THEN rawData[SheetHeaderRow + 1] ELSE <<>>

\* 0-based columns inside a merge region that covers the header row, the leftmost
\* column of the region excepted
MergeExcluded ==
    { c \in 0 .. (Len(SheetHeaderCells) - 1) :
        \E m \in merges : /\ m.sr <= SheetHeaderRow /\ SheetHeaderRow <= m.er
                          /\ m.sc < c /\ c <= m.ec }

\* 0-based columns whose header cell is null or empty
BlankHeader ==
    { c \in 0 .. (Len(SheetHeaderCells) - 1) :
        SheetHeaderCells[c + 1] = Null \/ SheetHeaderCells[c + 1] = Str(<<>>) }

\* the columns that keep a header, and the k-th of them from the left
RetainedColumns == ((0 .. (Len(SheetHeaderCells) - 1)) \ MergeExcluded) \ BlankHeader
RetainedAt(k) ==
    LET retained == RetainedColumns
    IN  CHOOSE c \in retained : Cardinality({ d \in retained : d <= c }) = k

\* the rows below the header row that have a non-empty cell, in order
SheetDataRows ==
    SelectSeq(SubSeq(rawData, SheetHeaderRow + 2, Len(rawData)),
              LAMBDA row : \E c \in 1 .. Len(row) : row[c] # Null /\ row[c] # Str(<<>>))

\* the value a cell is stored as: a numeric text becomes its number
StoredCell(cell) ==
    IF cell.t = "string" /\ IsNumericString(cell.s) THEN JsNumber(cell.s) ELSE cell

\* C21: in a parsed sheet the Schema has one entry per column that is neither blank
\* nor inside a merge region covering the header row (leftmost column of the region
\* excepted): the columns of such a region other than its leftmost contribute no
\* entry, its leftmost contributes one (its trimmed label, numbered when repeated),
\* and every value of an output row is the cell of a retained column of that name;
\* merge regions that do not cover the header row exclude nothing.
C21_MergedColumnsExcluded ==
    phase = "parsed" /\ fileKind = "xlsx" =>
        LET headerRowIndex == SheetHeaderRow
            headerCells == SheetHeaderCells
            dataRows == SheetDataRows
            column == [k \in 1 .. Cardinality(RetainedColumns) |-> RetainedAt(k)]
        IN  /\ Len(headers) = Len(column)
            /\ \A k \in 1 .. Len(headers) :
                   LET label == trim(JsString(headerCells[column[k] + 1]))
                   IN  Len(headers[k]) >= Len(label) /\ SubSeq(headers[k], 1, Len(label)) = label
            /\ Len(data) = Len(dataRows)
            /\ \A r \in 1 .. Len(data) : \A key \in DOMAIN data[r] :
                   \E k \in 1 .. Len(headers) :
                       /\ headers[k] = key
                       /\ column[k] < Len(dataRows[r])
                       /\ data[r][key] = StoredCell(dataRows[r][column[k] + 1])
            /\ (\A m \in merges : ~(m.sr <= headerRowIndex /\ headerRowIndex <= m.er)) =>
                   Len(headers) = Cardinality((0 .. (Len(headerCells) - 1)) \ BlankHeader)

\* a sheet whose columns 0-1 are merged at the header row has been parsed: the second
\* column, header and data cell, is gone
C21_Witness ==
    /\ phase = "parsed" /\ fileKind = "xlsx"
    /\ merges = {[sr |-> 0, sc |-> 0, er |-> 0, ec |-> 1]}
    /\ rawData = << <<Str(nH), Str(nPaddedH), Str(nH2)>>,
                    <<Str(<<"8">>), Str(<<"8">>), Str(<<"8">>)>> >>
    /\ headers = <<nH, nH2>>
    /\ data = << [k \in {nH, nH2} |-> Num(8 * Den)] >>

\* the header row the simple ingestor chooses, its cells and the rows it keeps
SimpleHeaderCells ==
    IF detectHeaderRowSimple(rawData) < Len(rawData)
    THEN rawData[detectHeaderRowSimple(rawData) + 1] ELSE <<>>
SimpleDataRows ==
    SelectSeq(SubSeq(rawData, detectHeaderRowSimple(rawData) + 2, Len(rawData)),
              LAMBDA row : \E c \in 1 .. Len(row) : row[c] # Null /\ row[c] # Str(<<>>))

\* merge-aware ingestor: blank header cells give no Schema entry and no data, and the
\* cells of the k-th retained column are in every output row under the k-th name
BlankColumnsSkipped ==
    phase = "parsed" /\ fileKind = "xlsx" =>
        /\ Len(headers) = Cardinality(RetainedColumns)
        /\ Len(data) = Len(SheetDataRows)
        /\ \A r \in 1 .. Len(data) :
               /\ \A k \in 1 .. Len(headers) :
                      RetainedAt(k) < Len(SheetDataRows[r]) =>
                          /\ headers[k] \in DOMAIN data[r]
                          /\ data[r][headers[k]] = StoredCell(SheetDataRows[r][RetainedAt(k) + 1])
               /\ Cardinality(DOMAIN data[r]) <= Cardinality(RetainedColumns)

\* simple ingestor: a blank header cell of column N (1-based) gives the name
\* "Column<N>", and the cells of the column are kept under that name
BlankColumnsNamed ==
    phase = "parsed-simple" =>
        /\ Len(headers) = Len(SimpleHeaderCells)
        /\ Len(data) = Len(SimpleDataRows)
        /\ \A n \in 1 .. Len(SimpleHeaderCells) :
               SimpleHeaderCells[n] = Null \/ SimpleHeaderCells[n] = Str(<<>>) =>
                   /\ headers[n] = <<"C", "o", "l", "u", "m", "n">> \o NatToString(n)
                   /\ \A r \in 1 .. Len(data) :
                          n <= Len(SimpleDataRows[r]) =>
                              /\ headers[n] \in DOMAIN data[r]
                              /\ data[r][headers[n]] = StoredCell(SimpleDataRows[r][n])

PopulatedRows(c) == { r \in 1 .. Len(rawData) : c < Len(rawData[r]) /\ rawData[r][c + 1] # Null }
AllSheetColumns == UNION { 0 .. (Len(rawData[r]) - 1) : r \in 1 .. Len(rawData) }

\* the columns whose only populated cell is their header-row cell
HeaderOnlyColumns == { c \in AllSheetColumns : PopulatedRows(c) = {SheetHeaderRow + 1} }

\* C23 (as claimed): spreadsheet ingestion fails with the missing-data error exactly
\* when the most-populated column has more than one populated cell and some column's
\* only populated cell is its header-row cell; on failure no table is returned.
C23_MissingDataGuard ==
    fileKind = "xlsx" /\ phase \in {"parsed", "parse-failed"} =>
        /\ parseError = "missing-data" <=>
               /\ \E c \in AllSheetColumns : Cardinality(PopulatedRows(c)) > 1
               /\ HeaderOnlyColumns # {}
        /\ parseError = "missing-data" =>
               phase = "parse-failed" /\ headers = <<>> /\ data = <<>>

-----------------------------------------------------------------------------
(* Specification of the pipeline: a delimited file or a spreadsheet is ingested, *)
(* columns are selected and the table is converted                                *)

\* at most this many rows below the header row in a file of the pipeline runs
MaxPipelineRows == 2

PipelineHeaderRows ==
    { <<Str(nHours), Str(nID)>>, <<Str(nHours), Null>>, <<Str(nHours), Str(nHours_hhmm)>>,
      <<Str(nHours), Str(nHours)>> }
\* rows of a sheet: full, blank (null cells, empty texts), partly filled, short
PipelineSheetRows ==
    { <<SevenAndHalf, Str(nNA)>>, <<SevenAndHalf, ThreeAndQuarter>>, <<Null, Null>>,
      <<Str(<<>>), Null>>, <<Null, ThreeAndQuarter>>, <<SevenAndHalf>> }
PipelineSchemas == { <<nHours, nID>>, <<nHours, nHours_hhmm>> }
PipelineCsvRows ==
    { <<SevenAndHalf, Str(nNA)>>, <<SevenAndHalf, ThreeAndQuarter>>, <<Null, Undefined>>,
      <<Undefined, ThreeAndQuarter>> }

InitPipeline ==
    /\ phase = "uploaded"
    /\ \/ /\ fileKind = "xlsx"
          /\ metaFields = <<>>
          /\ \E hdr \in PipelineHeaderRows, rows \in SeqsUpTo(PipelineSheetRows, MaxPipelineRows) :
                 rawData = <<hdr>> \o rows
          /\ merges \in { {}, {[sr |-> 0, sc |-> 0, er |-> 0, ec |-> 1]} }
       \/ /\ fileKind = "csv"
          /\ metaFields \in PipelineSchemas
          /\ \E cells \in SeqsUpTo(PipelineCsvRows, MaxPipelineRows) :
                 rawData = [r \in 1 .. Len(cells) |-> MkRow(metaFields, cells[r])]
          /\ merges = {}
    /\ parseError = "none"
    /\ IdleTable /\ IdleSelection /\ IdleConvert /\ IdleTime /\ IdleOther

NextPipeline ==
    \/ ParseCSVFile
    \/ ParseXLSXFile
    \/ OpenColumnSelector
    \/ SetColumnChecked
    \/ SelectAll
    \/ DeselectAll
    \/ SetKeepOriginal
    \/ Convert

SpecPipeline == InitPipeline /\ [][NextPipeline]_vars

\* C24: after ingestion (delimited or spreadsheet) the keys of every row are names of
\* the Schema; after convertCSVColumns, in either mode, the keys of every row are
\* names of the Schema or of newHeaders; a sheet yields one row for each row below
\* the header row that has a non-empty cell and none for the rows that have none.
C24_RowKeysInSchema ==
    /\ phase \in {"parsed", "select-columns", "converted"} =>
           \A r \in 1 .. Len(data) : DOMAIN data[r] \subseteq Range(headers)
    /\ phase = "converted" =>
           /\ Len(convertedData) = Len(data)
           /\ \A r \in 1 .. Len(convertedData) :
                  DOMAIN convertedData[r] \subseteq Range(headers) \cup Range(newHeaders)
    /\ fileKind = "xlsx" /\ phase \in {"parsed", "select-columns", "converted"} =>
           Len(data) = Len(SheetDataRows)

\* a sheet with a data row and a blank row has been converted with the original
\* columns kept: one output row, with the added column
C24_Witness ==
    /\ phase = "converted" /\ fileKind = "xlsx" /\ keepOriginalColumns
    /\ rawData = << <<Str(nHours), Str(nID)>>, <<SevenAndHalf, Str(nNA)>>,
                    <<Str(<<>>), Null>> >>
    /\ newHeaders = <<nHours_hhmm>>
    /\ Len(convertedData) = 1
    /\ DOMAIN convertedData[1] = {nHours, nID, nHours_hhmm}

-----------------------------------------------------------------------------
(* The conversion run, file by file: progress entries and archive entries *)

StatusRank(status) == IF status = "pending" THEN 0 ELSE IF status = "converting" THEN 1 ELSE 2

\* a step taken while the converting step is shown never moves an entry backwards
ProgressNeverRegresses ==
    currentStep = "converting" =>
        /\ Len(conversionProgress') = Len(conversionProgress)
        /\ \A p \in 1 .. Len(conversionProgress) :
               /\ conversionProgress'[p].fileName = conversionProgress[p].fileName
               /\ StatusRank(conversionProgress'[p].status) >= StatusRank(conversionProgress[p].status)

\* at most one entry is 'converting'; after a run that ended with its download every
\* entry is 'complete'
ProgressSettled ==
    /\ Cardinality({ p \in 1 .. Len(conversionProgress) :
                       conversionProgress[p].status = "converting" }) <= 1
    /\ downloads # <<>> =>
           \A p \in 1 .. Len(conversionProgress) : conversionProgress[p].status = "complete"

\* C25 (as claimed): during handleConvert each progress entry moves only
\* pending -> converting -> complete and never back, at most one entry is
\* 'converting' at any time, and when the run ends without error every entry is
\* 'complete' - for every batch, batches with two files of one name included.
C25_StatusMonotonic == [][ProgressNeverRegresses]_vars /\ []ProgressSettled

\* the parsed files (by position) that have a non-empty selection
SelectedFiles ==
    { j \in 1 .. Len(parsedFiles) : Len(SelectedFor(convertArgs, parsedFiles[j].fileName)) > 0 }

\* the step that triggers the download hands over one archive entry per selected file
DownloadHoldsEveryFile ==
    Len(downloads') > Len(downloads) =>
        /\ Cardinality(DOMAIN zip) = Cardinality(SelectedFiles)
        /\ \A j \in SelectedFiles :
               \E name \in DOMAIN zip :
                   /\ zip[name].file = j
                   /\ zip[name].columns = SelectedFor(convertArgs, parsedFiles[j].fileName)
        /\ \A name \in DOMAIN zip : zip[name].file \in SelectedFiles

\* C30 (as claimed): when handleConvert completes without error the archive holds
\* exactly one entry for each parsed file that has a non-empty selection and none for
\* the others, each converted with the selection of its file - for every batch,
\* files of equal names included.
C30_OneOutputPerFile == [][DownloadHoldsEveryFile]_vars

-----------------------------------------------------------------------------
(* keepOriginal and the columns of the input *)

\* C26 (as claimed): after convertCSVColumns with keepOriginal = true the value at
\* every Schema column of every row is its input value, and the header list (Schema
\* followed by newHeaders) names no column twice - also when the Schema already has
\* a column "<c>_hhmm" for a selected column c.
C26_KeepOriginalNoClobber ==
    phase = "converted" /\ keepOriginalColumns =>
        /\ Len(convertedData) = Len(data)
        /\ \A r \in 1 .. Len(data) : \A k \in Range(headers) :
               Get(convertedData[r], k) = Get(data[r], k)
        /\ NoDuplicates(outputFields)

-----------------------------------------------------------------------------
(* The header row index and the length of the grid *)

\* C27 (as claimed): the index chosen by detectHeaderRow is a row index of the grid
\* whenever the grid is not empty (0 <= index < number of rows), so that the header
\* row read by parseXLSXSheet exists - also for grids with report markers and fewer
\* than 7 rows.
C27_HeaderRowExists ==
    phase = "header-detected" /\ Len(rawData) > 0 =>
        0 <= headerRow /\ headerRow < Len(rawData)

-----------------------------------------------------------------------------
(* The list of the upload step and the input of the analysis *)

\* handleAnalyze starts a parser for exactly the files of the FileUpload list
AnalyzesShownFiles ==
    HandleAnalyze =>
        [i \in 1 .. Len(parsePromises') |-> parsePromises'[i].file] = files

\* C28 (as claimed): after any sequence of add-files (in one or several batches),
\* remove-file, clear-all and reset actions, the files that handleAnalyze parses are
\* exactly the files shown in the FileUpload list.
C28_ListIsAnalysisInput == [][AnalyzesShownFiles]_vars

\* C29 (as claimed, its necessary condition): no reachable state of the wizard is
\* stuck - away from the upload step some user action or pending completion is
\* always enabled, in particular after handleConvert has ended with an error.
C29_NoStuckState ==
    phase = "wizard" /\ currentStep # "upload" => ENABLED NextWizard

=============================================================================
